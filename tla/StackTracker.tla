----------------------------- MODULE StackTracker -----------------------------
(***************************************************************************)
(* StackTracker (CodeGen/StackTracker.{h,cpp}): which values the emitter    *)
(* believes to be on the EVM's stack, the top of it last.  Its swap() and   *)
(* size() have no caller.                                                   *)
(***************************************************************************)
EXTENDS Integers, Sequences

NewTracker == <<>>

trackerPush(tracker, v) == Append(tracker, v)

(* Undefined on an empty tracker; see Pop in FunctionEmitter. *)
trackerPop(tracker) == SubSeq(tracker, 1, Len(tracker) - 1)

NotFound == -1

(* The size is cast to a uint8_t before it is compared with 16. *)
SearchLimit(tracker) ==
  IF Len(tracker) % 256 < 16 THEN Len(tracker) % 256 ELSE 16

(* The depth of the topmost copy of v within the limit; 0 is the top. *)
findDepth(tracker, v) ==
  LET depths == {d \in 0..(SearchLimit(tracker) - 1) :
                   tracker[Len(tracker) - d] = v}
  IN  IF depths = {} THEN NotFound
      ELSE CHOOSE d \in depths : \A c \in depths : d <= c

(* Pushes a copy of the value at the depth, if there is one. *)
trackerDup(tracker, depth) ==
  IF depth >= Len(tracker) THEN tracker
  ELSE Append(tracker, tracker[Len(tracker) - depth])
=============================================================================
