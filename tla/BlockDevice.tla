----------------------------- MODULE BlockDevice -----------------------------
(***************************************************************************)
(* What a disk that moves whole blocks promises: a transfer moves the      *)
(* blocks it names, in their order; a block read is the one stored at its  *)
(* place, or blank when its place cannot be read; a write touches no block *)
(* but the one it names, though it may be lost; and a transfer ends early  *)
(* only in error.                                                          *)
(***************************************************************************)
EXTENDS Integers, Sequences

CONSTANTS
  Block,                \* what a block may hold
  Blank                 \* what stands for a block that cannot be read

VARIABLES
  disk,                 \* place |-> block
  job,                  \* the transfer under way: its kind and the places left
  last,                 \* the block this step moved, or Blank
  missing,              \* the next block of a read cannot be read
  error                 \* what the status will say

Idle == [kind |-> "idle", todo |-> << >>]

Init == job = Idle /\ last = Blank /\ missing = FALSE /\ error = FALSE

Start ==
  /\ job = Idle
  /\ job'.kind \in {"read", "write"} /\ job'.todo # << >>
  /\ missing' => error'
  /\ last' = Blank /\ UNCHANGED disk

(* After a block: the next one, or the end.                                *)
GoesOn ==
  /\ Len(job.todo) > 1
  /\ job' = [job EXCEPT !.todo = Tail(@)]
  /\ error' = error

Ends ==
  /\ job' = Idle /\ ~missing'
  /\ error => error'
  /\ Len(job.todo) = 1 \/ error'

Deliver ==
  /\ job.kind = "read"
  /\ last' = IF missing THEN Blank ELSE disk[Head(job.todo)]
  /\ GoesOn \/ Ends
  /\ UNCHANGED disk

(* The block is stored: a write behind the end makes the disk longer.      *)
Put(place, block) ==
  /\ place \in DOMAIN disk' /\ disk'[place] = block
  /\ DOMAIN disk \subseteq DOMAIN disk'
  /\ \A p \in DOMAIN disk' \ {place} :
       disk'[p] = IF p \in DOMAIN disk THEN disk[p] ELSE Blank

Store ==
  /\ job.kind = "write"
  /\ last' \in Block
  /\ Put(Head(job.todo), last') \/ UNCHANGED disk
  /\ GoesOn \/ Ends

(* No transfer, or none any more: the controller is reset, the disk is     *)
(* changed or made anew.                                                   *)
Abort == job' = Idle /\ ~missing' /\ last' = Blank

(* A step that completes no block.                                         *)
Otherwise ==
  /\ last' = Blank
  /\ job # Idle /\ error => error'
  /\ UNCHANGED <<disk, job, missing>>

Next ==
  \/ Abort
  \/ Otherwise
  \/ Start
  \/ Deliver
  \/ Store

Spec == Init /\ [][Next]_<<disk, job, last, missing, error>>

=============================================================================
