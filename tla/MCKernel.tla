------------------------------- MODULE MCKernel -------------------------------
(***************************************************************************)
(* The two parts of the kernel excerpt in one behaviour: the memory map is *)
(* built at boot, before the first page is handed out.  Nothing else joins *)
(* them in the excerpt, and they share no variable, so that not every      *)
(* machine is followed by every free list: calls of rmqueue_bulk are made  *)
(* on one machine only, and there on every free list.                      *)
(***************************************************************************)
EXTENDS RmQueue, Memmap

MCBlockTypes == { <<"MOVABLE", "UNMOVABLE">>, <<"MOVABLE", "CMA">> }

\* A bound: the machine on which pages are handed out.
Serving == [memory |-> Pfns, mirror |-> {}, mirrored_kernelcore |-> FALSE,
            movable_pfn |-> Min(MovableStarts), node_pfn |-> Max(NodeStarts),
            deferred_pfn |-> EndPfn]

KernelInit ==
  /\ Init
  /\ \/ machine = Serving
     \/ BlocksIn(free_area) = {} /\ machine \in Machine \ {Serving}
  /\ MapInit

KernelNext ==
  \/ /\ MapNext
     /\ UNCHANGED vars
  \/ /\ machine = Serving /\ pc = "done"
     /\ Next
     /\ UNCHANGED map_vars

\* The fairness of MapSpec and of Spec.
KernelSpec ==
  /\ KernelInit
  /\ [][KernelNext]_<<vars, map_vars>>
  /\ WF_map_vars(MapNext)
  /\ WF_vars(Work)
=============================================================================
