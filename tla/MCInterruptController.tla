------------------------- MODULE MCInterruptController -------------------------
(***************************************************************************)
(* Small instances of InterruptController.  A behaviour exercises either   *)
(* the sources, two terminals that share line 7, or the messages between   *)
(* cores; cores are reset in both.                                         *)
(***************************************************************************)
EXTENDS InterruptController

MCTwoTerminals == {<<7, 0>>, <<7, 1>>}

VARIABLE mode

MCInit == mode \in {"sources", "messages"} /\ Init

MCNext ==
  /\ \/ mode = "sources" /\ \E s \in Source : StartIRQ(s) \/ EndIRQ(s) \/ WriteIRT(s)
     \/ mode = "sources" /\ \E c \in Cpu : WriteTPR(c)
     \/ mode = "messages" /\ \E c \in Cpu : WriteOutbox(c) \/ deliverIPI(c) \/ WriteInbox(c)
     \/ \E c \in Cpu : ResetCpu(c)
  /\ UNCHANGED mode

MCSpec == /\ MCInit /\ [][MCNext]_<<mode, vars>>
          /\ \A c \in Cpu : WF_vars(deliverIPI(c))
==============================================================================
