------------------------------ MODULE MCKernel ------------------------------
(***************************************************************************)
(* Small instances of the kernel for TLC.                                  *)
(***************************************************************************)
EXTENDS KernelProps

\* Every syscall the CPU may send; and, for the runs that follow one, alone.
TodasLasSyscalls == Motivos
SoloThreadExit  == {"THREAD_EXIT"}
SoloProcessExit == {"PROCESS_EXIT"}

\* An uninitialised field looks like the main thread's, or like nothing's.
DosBasuras == {0, 7}

=============================================================================
