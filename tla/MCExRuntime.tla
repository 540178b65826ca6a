----------------------------- MODULE MCExRuntime ----------------------------
(* Small instances of the executive's processes. *)
EXTENDS ExRuntime, TLC

\* A kernel thread starts a shell, in the foreground or not, which starts one
\* program in the background.
ShellAndChild == (KernelCallers \X {1} \X BOOLEAN) \cup {<<1, 2, FALSE>>}

\* A kernel thread starts one program.
OneProgram == KernelCallers \X {1} \X {FALSE}

\* Kernel callers are interchangeable.
CallerSymmetry == Permutations(KernelCallers)

\* Bound: behaviours are followed up to the first overlap of two updates of one
\* count.  Beyond it the counts mean nothing.
UpToOverlap == ~overlapped
=============================================================================
