---------------------------- MODULE SpeakerRing ----------------------------
(***************************************************************************)
(* SpeakerSink: the playback contract over a ring buffer that the event    *)
(* loop fills and the sound card's callback thread empties.                *)
(*                                                                         *)
(* Positions are absolute device frames: write is moved by the loop, read  *)
(* by the callback, and the callback may be interrupted by the loop        *)
(* between looking at the positions (CallbackBegin) and moving its own     *)
(* (CallbackEnd).  The caller is one task, as in both pipelines: it has at *)
(* most one schedule() in progress; another task stops generations, each    *)
(* of them once.                                                           *)
(***************************************************************************)
EXTENDS Integers, Sequences, FiniteSets

CONSTANTS
  Capacity,        \* capacity: handles that may be outstanding
  RingSize,        \* ring_ms of device audio, in frames
  BlockSize,       \* frames the sound card asks for in a callback
  Shapes,          \* what chunks look like: converted length, input rate, final
  TailLength,            \* frames a resampler still owes when it is flushed
  MaxGenerations,  \* bound: generations issued
  MaxChunks        \* bound: chunks scheduled

ASSUME SpeakerAssumption ==
  /\ {Capacity, RingSize, BlockSize} \subseteq Nat \ {0}
  /\ {TailLength, MaxGenerations, MaxChunks} \subseteq Nat
  /\ Shapes \subseteq [len : Nat, rate : Nat \ {0}, final : BOOLEAN]

VARIABLES
  genSeq, invalidated, outstanding,   \* the ledger; the unresolved handles
  call,          \* the schedule() in progress
  write, read,   \* _write_abs, _read_abs
  ring,          \* which frame of which chunk each slot holds
  resampler,     \* the input rate it was made for, 0 when there is none
  maxPresented,  \* _max_presented
  callback,      \* the callback in progress: position and frames it saw
  phase,         \* "running" or "closed"
  owners,        \* history: the generation of each handle ever made
  heard,         \* history: frames of each handle the callback consumed
  harm           \* history: what has gone wrong so far

ledger  == <<genSeq, invalidated, outstanding>>
history == <<owners, heard>>
chunks  == Len(owners)
vars == <<ledger, call, write, read, ring, resampler, maxPresented, callback,
          phase, history, harm>>

(* Kinds of harm.  "torn": stop() ran while a callback was between its two *)
(* halves.  "others": stop() dropped queued audio of another generation.   *)
(* "cut": a resampler's tail did not fit.  "failed": stop() raised.        *)
Harms == {"torn", "others", "cut", "failed"}

Nothing == [at |-> "none"]
Frame(order, k) == [order |-> order, frame |-> k]
Least(a, b) == IF a < b THEN a ELSE b
Greatest(a, b) == IF a < b THEN b ELSE a
Space == RingSize - (write - read)
HeardOf(o) == IF o \in DOMAIN heard THEN heard[o] ELSE 0

Init ==
  /\ genSeq = 0 /\ invalidated = {} /\ outstanding = {}
  /\ call = Nothing
  /\ write = 0 /\ read = 0 /\ maxPresented = 0
  /\ ring = [s \in 0..(RingSize - 1) |-> Frame(0, 0)]
  /\ resampler = 0
  /\ callback = Nothing
  /\ phase = "running"
  /\ owners = <<>> /\ heard = <<>>
  /\ harm = {}

(* schedulable(): wake on invalidation, or with room and one owner only. *)
Schedulable(g) ==
  \/ g \in invalidated
  \/ /\ Cardinality(outstanding) < Capacity
     /\ \A h \in outstanding : h.gen = g

(* Mutant of RingWith: a write that wraps starts again at the second slot. *)
RingWithoutWrap(r, pos, frames) ==
  [s \in 0..(RingSize - 1) |->
     LET is == {i \in DOMAIN frames : (pos % RingSize) + i - 1 = s}
     IN  IF is = {} THEN r[s] ELSE frames[CHOOSE i \in is : TRUE]]

(* _ring_write(): frames go to the slots from pos on, round the end. *)
RingWith(r, pos, frames) ==
  [s \in 0..(RingSize - 1) |->
     LET is == {i \in DOMAIN frames : (pos + i - 1) % RingSize = s}
     IN  IF is = {} THEN r[s]
         ELSE frames[CHOOSE i \in is : \A j \in is : j <= i]]

AskGeneration ==
  /\ phase = "running" /\ genSeq < MaxGenerations
  /\ genSeq' = genSeq + 1
  /\ UNCHANGED <<invalidated, outstanding, call, write, read, ring, resampler,
                 maxPresented, callback, phase, history, harm>>

(***************************************************************************)
(* _convert(): a change of the input rate flushes the old resampler; what  *)
(* fits of its tail is written and all of it is added to the span of the   *)
(* last handle.                                                            *)
(***************************************************************************)
LastHandle == CHOOSE h \in outstanding : \A k \in outstanding : k.order <= h.order
TailOwed(rate) ==
  IF resampler \notin {0, rate} /\ outstanding # {} THEN TailLength ELSE 0
TailWritten(rate) == Least(TailOwed(rate), Greatest(0, Space))
WithTail(rate) ==
  IF TailOwed(rate) = 0 THEN outstanding
  ELSE (outstanding \ {LastHandle})
         \cup {[LastHandle EXCEPT !.end = @ + TailOwed(rate), !.len = @ + TailOwed(rate)]}

(* The handle made for a chunk: its span of device frames. *)
NewHandle(c) ==
  LET start == write + TailWritten(c.rate)
  IN  [order |-> chunks + 1, gen |-> c.gen, len |-> c.len, start |-> start,
       end |-> start + c.len]

(* Mutant of Room: what is left of a chunk is written at once or not at all. *)
RoomForAll(c, pos) ==
  IF RingSize - (pos - read) >= c.len - c.offset THEN c.len - c.offset ELSE 0

(* How many frames of a chunk the write loop can move to position pos. *)
Room(c, pos) == Greatest(0, Least(RingSize - (pos - read), c.len - c.offset))

(***************************************************************************)
(* The write loop from position pos until the chunk is written or the ring *)
(* is full.  A write that would go round twice (only when read is ahead of *)
(* write) raises.                                                          *)
(***************************************************************************)
WriteLoop(c, pos, r) ==
  LET n == Room(c, pos)
  IN  IF (pos % RingSize) + n > 2 * RingSize
        THEN call' = Nothing /\ write' = pos /\ ring' = r
        ELSE /\ write' = pos + n
             /\ ring' = RingWith(r, pos, [i \in 1..n |-> Frame(c.order, c.offset + i - 1)])
             /\ call' = IF c.offset + n = c.len THEN Nothing
                        ELSE [c EXCEPT !.offset = @ + n]

(* schedule() from the end of the wait on: rejected, or converted, made a  *)
(* handle and written.                                                     *)
Enter(c) ==
  IF c.gen \in invalidated
    THEN /\ call' = Nothing
         /\ UNCHANGED <<outstanding, write, ring, resampler, owners, harm>>
    ELSE LET owed == TailOwed(c.rate)
             fits == TailWritten(c.rate)
             tail == [i \in 1..fits |-> Frame(LastHandle.order, LastHandle.len + i - 1)]
         IN  /\ outstanding' = WithTail(c.rate) \cup {NewHandle(c)}
             /\ WriteLoop([at |-> "writing", gen |-> c.gen, len |-> c.len,
                           order |-> chunks + 1, offset |-> 0],
                          write + fits, RingWith(ring, write, tail))
             /\ harm' = IF fits < owed THEN harm \cup {"cut"} ELSE harm
             /\ resampler' = IF c.final THEN 0 ELSE c.rate
             /\ owners' = Append(owners, c.gen)

(* schedule(): it goes straight on, or waits for capacity. *)
CallSchedule(g, s) ==
  /\ phase = "running" /\ call = Nothing /\ chunks < MaxChunks
  /\ LET c == [at |-> "waiting", gen |-> g, len |-> s.len, rate |-> s.rate,
               final |-> s.final]
     IN  IF Schedulable(g) THEN Enter(c)
         ELSE /\ call' = c
              /\ UNCHANGED <<outstanding, write, ring, resampler, owners, harm>>
  /\ UNCHANGED <<genSeq, invalidated, read, maxPresented, callback, phase, heard>>

(* The wait for capacity ends. *)
Admit ==
  /\ call.at = "waiting" /\ Schedulable(call.gen)
  /\ Enter(call)
  /\ UNCHANGED <<genSeq, invalidated, read, maxPresented, callback, phase, heard>>

(* The write loop woken in the middle of a chunk: rejected, or it goes on. *)
WriteOn ==
  /\ call.at = "writing"
  /\ IF call.gen \in invalidated
       THEN call' = Nothing /\ UNCHANGED <<write, ring>>
       ELSE Space > 0 /\ WriteLoop(call, write, ring)
  /\ UNCHANGED <<ledger, read, resampler, maxPresented, callback, phase, history, harm>>

---------------------------------------------------------------------------
(* The callback thread. *)

(* A callback that finds no frame only fills with silence and is no step. *)
CallbackBegin ==
  /\ phase # "closed" /\ callback = Nothing /\ write # read
  /\ callback' = [at |-> "copying", from |-> read, n |-> Least(BlockSize, write - read)]
  /\ UNCHANGED <<ledger, call, write, read, ring, resampler, maxPresented, phase,
                 history, harm>>

(* The frames a callback copies to the device. *)
Copied == [i \in 1..callback.n |-> ring[(callback.from + i - 1) % RingSize]]

(* What has been heard once fs are out too. *)
HeardAfter(fs) ==
  [o \in 1..chunks |-> HeardOf(o) + Cardinality({i \in DOMAIN fs : fs[i].order = o})]

CallbackEnd ==
  /\ callback # Nothing
  /\ read' = callback.from + callback.n
  /\ heard' = HeardAfter(Copied)
  /\ callback' = Nothing
  /\ UNCHANGED <<ledger, call, write, ring, resampler, maxPresented, phase, owners,
                 harm>>

---------------------------------------------------------------------------
(* Presentation and the end of handles, on the loop. *)

(* Mutant of PresentedNow: queued frames count as presented. *)
PresentedIfQueued == {Least(q, write) : q \in maxPresented..Greatest(maxPresented, write)}

(* _presented_abs(): as far as the sound card's time says, which is any    *)
(* position between the last one and what the callback consumed.           *)
PresentedNow == {Least(q, read) : q \in maxPresented..Greatest(maxPresented, read)}

(* _apply_presented(): the part of a handle's span that has been presented, *)
(* which is what receipts and snapshots report.                            *)
Presented(h, p) == Greatest(0, Least(h.end - h.start, p - h.start))

(* Mutant of Finished: a handle completes when it begins to be presented.  *)
FinishedIfStarted(h, p) == p >= h.start

(* The test by which a handle completes. *)
Finished(h, p) == p >= h.end

(* _on_progress(), posted by a callback and run some time later: what has  *)
(* been presented to its end completes and leaves the ledger.              *)
Progress(p) ==
  /\ outstanding # {}
  /\ outstanding' = {h \in outstanding : ~Finished(h, p)}
  /\ maxPresented' = p
  /\ UNCHANGED <<genSeq, invalidated, call, write, read, ring, resampler, callback,
                 phase, history, harm>>

(* Mutant of WriteAfterStop: the queued frames stay in the ring. *)
WriteKept == write

(* Where a stop leaves the write position: nothing stays queued. *)
WriteAfterStop == read

(* What a stop of g does wrong: to a callback, or to another generation. *)
HarmOfStop(g) ==
  {k \in Harms :
     \/ k = "torn" /\ callback # Nothing /\ callback.n > 0
     \/ k = "others" /\ \E h \in outstanding : h.gen # g /\ h.end > read}

(***************************************************************************)
(* stop(): invalidate, freeze and release the handles of g, drop what is   *)
(* queued, abort the stream and calibrate it anew.  abort() waits for the  *)
(* callback in progress, which moves read past the write position; what it *)
(* copied is thrown away with the device buffer.                           *)
(***************************************************************************)
Stop(g) ==
  /\ phase = "running" /\ g \notin invalidated
  /\ outstanding' = {h \in outstanding : h.gen # g}
  /\ invalidated' = invalidated \cup {g}
  /\ write' = WriteAfterStop
  /\ read' = IF callback = Nothing THEN read ELSE callback.from + callback.n
  /\ maxPresented' = read'
  /\ callback' = Nothing
  /\ resampler' = 0
  /\ harm' = harm \cup HarmOfStop(g)
  /\ UNCHANGED <<genSeq, call, ring, phase, owners, heard>>

(***************************************************************************)
(* stop() while the callback thread appends to _blocks: the iteration over *)
(* the deque in _presented_abs() raises, after the generation has been     *)
(* invalidated and before anything else.                                   *)
(***************************************************************************)
StopRaises(g) ==
  /\ phase = "running" /\ callback # Nothing /\ g \notin invalidated
  /\ invalidated' = invalidated \cup {g}
  /\ harm' = harm \cup {"failed"}
  /\ UNCHANGED <<genSeq, outstanding, call, write, read, ring, resampler,
                 maxPresented, callback, phase, history>>

(* The session is over: the caller's task has returned or been cancelled,  *)
(* and aclose() resolves every handle.                                     *)
Close ==
  /\ phase = "running"
  /\ phase' = "closed"
  /\ call' = Nothing
  /\ outstanding' = {}
  /\ callback' = Nothing
  /\ UNCHANGED <<genSeq, invalidated, write, read, ring, resampler, maxPresented,
                 history, harm>>

Next ==
  \/ AskGeneration
  \/ \E g \in 1..genSeq, s \in Shapes : CallSchedule(g, s)
  \/ Admit
  \/ WriteOn
  \/ CallbackBegin
  \/ CallbackEnd
  \/ \E p \in PresentedNow : Progress(p)
  \/ \E g \in 1..genSeq : Stop(g) \/ StopRaises(g)
  \/ Close

Spec == Init /\ [][Next]_vars

(***************************************************************************)
(* The loop runs woken tasks, the sound card calls back for ever, and its  *)
(* time passes what was consumed.                                          *)
(***************************************************************************)
FairSpec ==
  /\ Spec
  /\ WF_vars(Admit) /\ WF_vars(WriteOn)
  /\ WF_vars(CallbackBegin) /\ WF_vars(CallbackEnd)
  /\ WF_vars(Progress(Least(Greatest(maxPresented, read), read)))

---------------------------------------------------------------------------
TypeOK ==
  /\ genSeq \in 0..MaxGenerations
  /\ invalidated \subseteq 1..genSeq
  /\ Cardinality(outstanding) <= Capacity
  /\ call.at \in {"none", "waiting", "writing"}
  /\ resampler \in {s.rate : s \in Shapes} \cup {0}
  /\ write - read \in (-BlockSize)..(RingSize + BlockSize)
  /\ harm \subseteq Harms
  /\ phase \in {"running", "closed"}

(***************************************************************************)
(* Unless a stop cut a callback in two, the frames between the read and    *)
(* the write position are exactly what is due: they continue where the     *)
(* device stopped, chunk after chunk, none skipped, repeated or            *)
(* overwritten, however chunks, callbacks, stops and wraps interleave.     *)
(***************************************************************************)
RingHoldsWhatIsDue ==
  phase # "closed" /\ harm \cap {"torn", "cut", "others"} = {} =>
    /\ read <= write /\ write - read <= RingSize
    /\ \A p \in read..(write - 1) :
         LET due  == ring[p % RingSize]
             last == ring[(p - 1) % RingSize]
         IN  IF p = read THEN due.frame = HeardOf(due.order)
             ELSE \/ due.order = last.order /\ due.frame = last.frame + 1
                  \/ /\ due.order > last.order /\ due.frame = 0
                     /\ \E h \in outstanding :
                          h.order = last.order /\ h.len = last.frame + 1

(***************************************************************************)
(* Receipts are honest, whenever they are taken: a handle never reports    *)
(* more frames presented than the callback took of that very chunk, and    *)
(* one that completes has been consumed to its last frame, although the    *)
(* span of the last handle may still grow.                                 *)
(***************************************************************************)
ReceiptsAreHeard ==
  harm \cap {"torn", "cut", "others"} = {} =>
    \A p \in PresentedNow, h \in outstanding :
      /\ Presented(h, p) <= HeardOf(h.order)
      /\ Finished(h, p) => HeardOf(h.order) = h.len

(***************************************************************************)
(* stop(): once it has returned, the callback takes no frame of that       *)
(* generation again, whatever it was doing when the stop came and whatever *)
(* a schedule() was half-way through writing.  (Two stops in a row, each   *)
(* cutting a callback in two, would bring old frames back.)                *)
(***************************************************************************)
StoppedIsNotHeard ==
  [][harm \cap {"torn", "failed"} = {} =>
       \A o \in DOMAIN heard' :
         heard'[o] > HeardOf(o) => owners[o] \notin invalidated]_vars

(***************************************************************************)
(* Until something goes wrong (harm), the speaker keeps the contract of    *)
(* AudioSink (types.py): although a callback takes frames of several       *)
(* chunks at once and chunks are written in pieces, they begin to sound    *)
(* while they are outstanding, complete in order and not before they were  *)
(* heard, and a stop ends its own generation and nothing else.             *)
(***************************************************************************)
LastSounded(counts) ==
  LET sounded == {o \in DOMAIN counts : counts[o] > 0}
  IN  IF sounded = {} THEN 0 ELSE CHOOSE o \in sounded : \A k \in sounded : k <= o

Contract == INSTANCE PlaybackContract WITH
  stopped   <- invalidated,
  playing   <- {[order |-> h.order, gen |-> h.gen] : h \in outstanding},
  accepted  <- chunks,
  begun     <- LastSounded(heard),
  soundless <- {h.order : h \in {k \in outstanding : k.len = 0}}

KeepsContract ==
  /\ Contract!Init
  /\ [][harm' = {} => Contract!Next \/ UNCHANGED Contract!vars]_vars

(***************************************************************************)
(* A stop is of exactly its own generation: whatever else is outstanding   *)
(* keeps its frames, in the ring or in the schedule() still writing them.  *)
(***************************************************************************)
OthersStayQueued ==
  \A h \in outstanding :
    \/ h.gen \in invalidated \/ h.end <= write
    \/ call.at = "writing" /\ call.order = h.order

(***************************************************************************)
(* A starved callback fills what it lacks with silence.  With a negative   *)
(* count of frames, which read ahead of write gives, it fills only the     *)
(* last ones.                                                              *)
(***************************************************************************)
StarvedIsZeroFilled ==
  callback # Nothing => callback.n >= 0 \/ callback.n = -BlockSize

(***************************************************************************)
(* A schedule() in progress returns or raises: the wake-ups of progress    *)
(* and of stop() reach it while it waits for capacity and in the middle of *)
(* a chunk larger than the ring.                                           *)
(***************************************************************************)
ScheduleReturns ==
  call # Nothing ~> (call = Nothing \/ harm \cap {"others", "cut", "failed"} # {})

(***************************************************************************)
(* Every handle is resolved, so that drain() returns and the next          *)
(* generation gets the sink, unless a stop dropped what it was waiting for.*)
(***************************************************************************)
IsOutstanding(o) == \E h \in outstanding : h.order = o
EveryHandleResolves ==
  \A o \in 1..MaxChunks : IsOutstanding(o) ~> (~IsOutstanding(o) \/ harm # {})

(***************************************************************************)
(* The ring at every moment: positions, ledger and call within bounds, and *)
(* exactly the frames that are due between the two positions (audio_io.py  *)
(* schedule, _callback, stop).                                             *)
(***************************************************************************)
RingIsSound == TypeOK /\ RingHoldsWhatIsDue

(***************************************************************************)
(* Nobody waits for ever on the speaker: neither the task in schedule()    *)
(* nor the one that drains (audio_io.py 780-818).                          *)
(***************************************************************************)
CallsEnd == ScheduleReturns /\ EveryHandleResolves
===========================================================================
