--------------------------- MODULE ResponseEvents ---------------------------
(***************************************************************************)
(* What the S2S protocol of backends/__init__.py promises of a stream:     *)
(* a response is announced once, its audio comes between its announcement  *)
(* and its end, it ends at most once, and nothing comes after the stream   *)
(* is over.                                                                *)
(***************************************************************************)
EXTENDS Naturals

CONSTANT MaxResponses  \* bound: responses of the stream

VARIABLES
  started, audio, done,  \* how many events of each kind a response had
  over                   \* whether the stream ended

vars == <<started, audio, done, over>>

Responses == 1..MaxResponses
None == [r \in Responses |-> 0]

Init == started = None /\ audio = None /\ done = None /\ over = FALSE

Begin(r) ==
  /\ ~over /\ started[r] = 0
  /\ started' = [started EXCEPT ![r] = 1]
  /\ UNCHANGED <<audio, done, over>>

Audio(r) ==
  /\ ~over /\ started[r] = 1 /\ done[r] = 0
  /\ audio' = [audio EXCEPT ![r] = @ + 1]
  /\ UNCHANGED <<started, done, over>>

Finish(r) ==
  /\ ~over /\ started[r] = 1 /\ done[r] = 0
  /\ done' = [done EXCEPT ![r] = 1]
  /\ UNCHANGED <<started, audio, over>>

End == over' = TRUE /\ UNCHANGED <<started, audio, done>>

Next == (\E r \in Responses : Begin(r) \/ Audio(r) \/ Finish(r)) \/ End

Spec == Init /\ [][Next]_vars
===========================================================================
