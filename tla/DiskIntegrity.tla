--------------------------- MODULE DiskIntegrity ---------------------------
(***************************************************************************)
(* The data a run of IoQueue writes, reads and verifies.                   *)
(*                                                                         *)
(* generic_queue_write stamps every sector of a request with its own       *)
(* offset; read_complete compares the sectors below the verified prefix    *)
(* (last_integrity_written_offset) with that pattern and stops the program *)
(* on a mismatch.  A sector is therefore either patterned or it is not.    *)
(* The device moves the sectors of the requests it holds one at a time, in *)
(* any order, and a request completes when all of its sectors have moved.  *)
(* Of a request whose completion is an error the program hears nothing, so *)
(* how much of it moved makes no difference.                               *)
(***************************************************************************)
EXTENDS IoQueue

CONSTANTS
  FileSize,   \* worker->filesize, in sectors
  Patterned   \* the sectors that hold the pattern when the run starts

ASSUME InFileAssumption ==
  FileSize \in Nat /\ \A r \in Requests : r.offset + r.size <= FileSize
ASSUME PatternedAssumption ==
  Patterned \subseteq 0 .. FileSize - 1 /\ 0 .. Verified - 1 \subseteq Patterned

VARIABLES
  patterned,  \* the sectors on the disk that hold the pattern
  moved,      \* of each entry's request, the sectors the device has moved
  intact,     \* of those, the ones that carried the pattern into its buffer
  trusted,    \* of each entry, the verified prefix when it was submitted; no
              \* variable of the program, only used to state a property
  blamed      \* the sectors read_complete found damaged before it called
              \* integrity_error, which ends the program with exit(1)

diskVars == <<patterned, moved, intact, trusted, blamed>>

\* Mutation: the loop over the sectors of a request runs to its end inclusive.
SpanInclusive(r) == r.offset .. r.offset + r.size

\* The sectors of a request.
Span(r) == r.offset .. r.offset + r.size - 1

DiskInit ==
  /\ Init
  /\ patterned = Patterned
  /\ moved = [s \in Slots |-> {}]
  /\ intact = [s \in Slots |-> {}]
  /\ trusted = [s \in Slots |-> 0]
  /\ blamed = {}

\* generic_queue_write fills the entry's buffer with the pattern; a read only
\* names the buffer.  No sector has moved yet.
SubmitData(r) ==
  /\ Submit(r)
  /\ moved' = [moved EXCEPT ![Head(ready)] = {}]
  /\ intact' = [intact EXCEPT ![Head(ready)] = {}]
  /\ trusted' = [trusted EXCEPT ![Head(ready)] = last_written]
  /\ UNCHANGED <<patterned, blamed>>

\* A request that is refused moves nothing.
RefuseData(r) ==
  /\ SubmitFails(r)
  /\ UNCHANGED diskVars

\* The device moves sector x between the buffer of entry s and the disk.
Move(s, x) ==
  /\ s \in inflight
  /\ x \in Span(request[s]) \ moved[s]
  /\ pc \notin {"exited", "aborted", "crashed"}
  /\ moved' = [moved EXCEPT ![s] = @ \cup {x}]
  /\ IF request[s].op = "write"
       THEN patterned' = patterned \cup {x} /\ UNCHANGED intact
       ELSE /\ intact' = IF x \in patterned THEN [intact EXCEPT ![s] = @ \cup {x}] ELSE intact
            /\ UNCHANGED patterned
  /\ UNCHANGED <<trusted, blamed, vars>>

\* Mutation: a request completes as soon as the device has begun with it.
WholeRequestEarly(s) == moved[s] # {}

WholeRequest(s) == moved[s] = Span(request[s])

CompleteData(s) ==
  /\ WholeRequest(s)
  /\ Complete(s)
  /\ UNCHANGED diskVars

\* Mutation: the comparison does not stop at the verified prefix.
MustMatchWholeRequest(r) == Span(r)

\* The sectors read_complete compares: those that were below the verified
\* prefix when it looks, not when the request was submitted.
MustMatch(r) == {x \in Span(r) : x < last_written}

\* Those of them that do not hold the pattern in the buffer of the entry.
Mismatch(s) == IF request[s].op = "read" THEN MustMatch(request[s]) \ intact[s] ELSE {}

NotifyData(s) ==
  /\ Mismatch(s) = {}
  /\ Notify(s)
  /\ UNCHANGED diskVars

\* read_complete has counted the request when it finds the mismatch.
IntegrityError(s) ==
  /\ pc = "reap"
  /\ s \in events
  /\ Mismatch(s) # {}
  /\ CountCompletion(request[s])
  /\ blamed' = Mismatch(s)
  /\ pc' = "aborted"
  /\ UNCHANGED <<draining, wanted, received, oldActive, expired, ringVars, request, kernelVars,
                 submitted_bytes, max_active, last_written, patterned, moved, intact, trusted>>

\* The steps of the queue that touch no data.
QueueStep ==
  \/ QueueCreate
  \/ QueueCreateFails
  \/ TimeIsUp
  \/ LimitReached
  \/ FetchFromEmptyRing
  \/ NothingActive
  \/ \E S \in SUBSET done : Reap(S)
  \/ ReapDone
  \/ WaitFails
  \/ \E s \in done : Win32DropsFailedIo(s)
  \/ QueueDestroy
  \/ Expire
  \/ Stopped

\* What follows a submission: the device, and the reaping of what it served.
DiskStep ==
  \/ \E s \in Slots : \E x \in Span(request[s]) : Move(s, x)
  \/ \E s \in Slots : CompleteData(s)
  \/ \E s \in events : NotifyData(s)
  \/ \E s \in events : IntegrityError(s)
  \/ QueueStep /\ UNCHANGED diskVars

DiskNext ==
  \/ \E r \in Requests : SubmitData(r)
  \/ \E r \in Requests : RefuseData(r)
  \/ DiskStep

DiskSpec == DiskInit /\ [][DiskNext]_<<vars, diskVars>>
-----------------------------------------------------------------------------
DiskTypeOK ==
  /\ TypeOK
  /\ patterned \subseteq 0 .. FileSize - 1
  /\ \A s \in Slots : intact[s] \subseteq moved[s] /\ moved[s] \subseteq 0 .. FileSize - 1
  /\ trusted \in [Slots -> Nat]
  /\ blamed \subseteq 0 .. FileSize - 1

\* Everything below last_integrity_written_offset has reached the disk: the
\* prefix only covers writes that completed, without a gap.
PrefixWritten == 0 .. last_written - 1 \subseteq patterned

\* A read delivers what was verified when generic_queue_read was called: a
\* comparison with the prefix of that moment would never find a mismatch.
SubmittedPrefixIntact ==
  \A s \in done \cup events :
    request[s].op = "read" => {x \in Span(request[s]) : x < trusted[s]} \subseteq intact[s]

\* read_complete never blames a sector that held the pattern all along, nor one
\* that nobody wrote: only sectors some write of this run gave the pattern.
BlamesOnlyFreshWrites ==
  \A x \in blamed : x \notin Patterned /\ \E w \in Requests : w.op = "write" /\ x \in Span(w)

\* The message of integrity_error is only printed when the disk lost data.
NoFalseAlarm == blamed = {}

\* No read overlaps a write on sectors that were not patterned before: true
\* of a run that only reads or only writes, and on a file written in full.
Separated ==
  \A r, w \in Requests :
    r.op = "read" /\ w.op = "write" => Span(r) \cap Span(w) \subseteq Patterned
=============================================================================
