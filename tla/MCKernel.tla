------------------------------ MODULE MCKernel ------------------------------
(* Pipes, physical memory and the memory of programs, each with an instance  *)
(* of its own: a behaviour is one of the part that which names, and the      *)
(* others keep their first state.                                            *)
EXTENDS Pipe, MemoryLoops, AddressSpace, TLC

VARIABLE which

(* Contexts other than the creator of the pipe are interchangeable, and so   *)
(* are the values of a byte, which a pipe only carries.                      *)
Alike == Permutations(Proc \ {Root}) \cup Permutations(Byte)

(* A memory map with a hole.                                                 *)
MCPresent == Clusters \ {4}

KernelInit == which \in {"pipe", "memory", "space"} /\ PipeInit /\ MemoryInit /\ SpaceInit

KernelNext ==
  \/ which = "pipe" /\ PipeNext /\ UNCHANGED <<which, memoryVars, spaceVars>>
  \/ which = "memory" /\ MemoryNext /\ UNCHANGED <<which, pipeVars, spaceVars>>
  \/ which = "space" /\ SpaceNext /\ UNCHANGED <<which, pipeVars, memoryVars>>

KernelSpec == KernelInit /\ [][KernelNext]_<<which, pipeVars, memoryVars, spaceVars>>

-----------------------------------------------------------------------------
(* In every state of the cluster table the loops of kernel/arch/memory.rs    *)
(* compute what Memory's operators say: LoopsAsSpecified.                    *)
LoopsRight == which = "memory" => LoopsAsSpecified

(* Memory is safe from one program to another and none is lost: SpacesSound. *)
SpacesRight == which = "space" => SpacesSound
=============================================================================
