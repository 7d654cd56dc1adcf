------------------------------- MODULE CmdWalk -------------------------------
(***************************************************************************)
(* cmd.cc: the application records a frame's stream into a CmdBuf          *)
(* (cb_reset, cb_push), and cb_walk replays it with the display lists it   *)
(* calls, on a bounded return stack instead of host recursion.             *)
(*                                                                         *)
(* A command is its operation and its operand: a list for control          *)
(* commands, anything for the others.  The visitor is geom_visit; the one  *)
(* thing it tells the walker is the predicate of BRANCH_LESS_Z, a          *)
(* nondeterministic choice here.                                           *)
(***************************************************************************)
EXTENDS Integers, Sequences

CONSTANTS
  List,        \* retained display lists
  Body,        \* their commands
  Null,        \* the null list pointer
  Operand,     \* operands of other commands
  Stream,      \* the stream in the command buffer, as a list
  Cap,         \* CmdBuf.cap
  MaxDepth,    \* CMD_WALK_MAX_DEPTH
  Recorded,    \* commands the application records before the final END
  MaxRecorded  \* bound: how many of them in one stream

Op == {"visit", "call", "branch", "return", "end"}
Command == [op : Op, arg : List \cup Operand \cup {Null}]
Control(c) == c.op \in {"call", "branch"}
Leaving(c) == c.op \in {"return", "end"}
End == [op |-> "end", arg |-> Null]

(* A retained list is complete: the caller's side of the contract. *)
ASSUME ListsAssumption ==
  /\ Null \notin List /\ Stream \notin List
  /\ Body \in [List -> Seq(Command)]
  /\ \A l \in List : Body[l] # <<>> /\ Leaving(Body[l][Len(Body[l])])
  /\ \A l \in List : \A i \in DOMAIN Body[l] :
       Control(Body[l][i]) => Body[l][i].arg \in List \cup {Null}
  /\ Recorded \subseteq Command
  /\ \A c \in Recorded : Control(c) => c.arg \in List \cup {Null}

ASSUME LimitsAssumption == Cap \in Nat \ {0} /\ MaxDepth \in Nat /\ MaxRecorded \in Nat

VARIABLES
  phase,         \* "record", "walk", or "idle" between frames
  buf, dropped,  \* CmdBuf: buf[0 .. count), dropped
  pc,            \* next command: a list, and the position in it
  ret_stack,     \* ret_stack[0 .. sp)
  result,        \* what cb_walk returned
  visited,       \* history: the commands the visitor has seen
  turns          \* history: how often the loop of cb_walk has turned

cb == <<buf, dropped>>
walk == <<pc, ret_stack, result, visited, turns>>
vars == <<phase, cb, walk>>

Init ==
  /\ phase = "idle"
  /\ buf = <<>> /\ dropped = 0
  /\ pc = [list |-> Stream, i |-> 1] /\ ret_stack = <<>>
  /\ result = "none" /\ visited = <<>> /\ turns = 0

-----------------------------------------------------------------------------
(* Recording *)

(* cb_reset *)
Reset ==
  /\ phase = "idle"
  /\ phase' = "record" /\ buf' = <<>> /\ dropped' = 0
  /\ result' = "none" /\ visited' = <<>> /\ turns' = 0
  /\ UNCHANGED <<pc, ret_stack>>

(* Slip: the loss is not counted. *)
PushSilently(c) ==
  /\ buf' = IF Len(buf) < Cap THEN Append(buf, c) ELSE buf
  /\ UNCHANGED dropped

(* cb_push; every caller ignores what it returns. *)
Push(c) ==
  \/ Len(buf) >= Cap /\ dropped' = dropped + 1 /\ UNCHANGED buf
  \/ Len(buf) < Cap /\ buf' = Append(buf, c) /\ UNCHANGED dropped

Record(c) ==
  /\ phase = "record"
  /\ Len(buf) + dropped < MaxRecorded
  /\ Push(c)
  /\ UNCHANGED <<phase, walk>>

(* The builder ends the stream, and rdr_submit hands it to cb_walk. *)
Submit ==
  /\ phase = "record"
  /\ Push(End)
  /\ phase' = "walk"
  /\ pc' = [list |-> Stream, i |-> 1] /\ ret_stack' = <<>>
  /\ UNCHANGED <<result, visited, turns>>

-----------------------------------------------------------------------------
(* cb_walk, one turn of its loop *)

Text(b, list) == IF list = Stream THEN b ELSE Body[list]

(* Past what was recorded lies an older stream or other memory. *)
OffTheEnd == [op |-> "off", arg |-> Null]
Fetch(b, p) ==
  IF p.i <= Len(Text(b, p.list)) THEN Text(b, p.list)[p.i] ELSE OffTheEnd
After(p) == [p EXCEPT !.i = @ + 1]
Top(list) == [list |-> list, i |-> 1]

Here == Fetch(buf, pc)
Walking(ops) == phase = "walk" /\ Here.op \in ops

Stop(r) ==
  /\ phase' = "idle" /\ result' = r /\ turns' = turns + 1
  /\ UNCHANGED <<cb, pc, ret_stack, visited>>

Jump(p, stack) ==
  /\ pc' = p /\ ret_stack' = stack /\ turns' = turns + 1
  /\ UNCHANGED <<phase, cb, result>>

(* Slip: one call too many finds room. *)
CallListPastEnd ==
  /\ Walking({"call"})
  /\ \/ Here.arg = Null /\ Stop("EINVAL")
     \/ Here.arg # Null /\ Len(ret_stack) > MaxDepth /\ Stop("EOVERFLOW")
     \/ /\ Here.arg # Null /\ Len(ret_stack) <= MaxDepth
        /\ Jump(Top(Here.arg), Append(ret_stack, After(pc)))
        /\ UNCHANGED visited

CallList ==
  /\ Walking({"call"})
  /\ \/ Here.arg = Null /\ Stop("EINVAL")
     \/ Here.arg # Null /\ Len(ret_stack) >= MaxDepth /\ Stop("EOVERFLOW")
     \/ /\ Here.arg # Null /\ Len(ret_stack) < MaxDepth
        /\ Jump(Top(Here.arg), Append(ret_stack, After(pc)))
        /\ UNCHANGED visited

(* Slip: a branch returns, as a call does. *)
BranchLikeACall ==
  /\ Walking({"branch"})
  /\ \/ Here.arg = Null /\ Stop("EINVAL")
     \/ /\ Here.arg # Null /\ visited' = Append(visited, Here)
        /\ \/ Jump(Top(Here.arg), Append(ret_stack, After(pc)))
           \/ Jump(After(pc), ret_stack)

BranchLessZ ==
  /\ Walking({"branch"})
  /\ \/ Here.arg = Null /\ Stop("EINVAL")
     \/ /\ Here.arg # Null /\ visited' = Append(visited, Here)
        /\ Jump(Top(Here.arg), ret_stack) \/ Jump(After(pc), ret_stack)

(* Slip: a RETURN at the top level is passed over in place. *)
LeaveOnlyOnEnd ==
  /\ Walking({"return", "end"})
  /\ \/ ret_stack = <<>> /\ Here.op = "end" /\ Stop("OK")
     \/ /\ ret_stack # <<>>
        /\ Jump(ret_stack[Len(ret_stack)], SubSeq(ret_stack, 1, Len(ret_stack) - 1))
        /\ UNCHANGED visited
     \/ ret_stack = <<>> /\ Here.op = "return" /\ UNCHANGED vars

Leave ==
  /\ Walking({"return", "end"})
  /\ \/ ret_stack = <<>> /\ Stop("OK")
     \/ /\ ret_stack # <<>>
        /\ Jump(ret_stack[Len(ret_stack)], SubSeq(ret_stack, 1, Len(ret_stack) - 1))
        /\ UNCHANGED visited

Visit ==
  /\ Walking({"visit"})
  /\ visited' = Append(visited, Here) /\ Jump(After(pc), ret_stack)

(* What a walk off its list does is undefined; a next frame, if there is   *)
(* one, starts over.                                                       *)
RunOff == Walking({"off"}) /\ Stop("lost")

-----------------------------------------------------------------------------
Walk == CallList \/ BranchLessZ \/ Leave \/ Visit \/ RunOff

Next == \/ Reset \/ Submit \/ Walk
        \/ \E c \in Recorded : Record(c)

(* cb_walk runs until it returns. *)
Spec == Init /\ [][Next]_vars /\ WF_vars(Walk)

-----------------------------------------------------------------------------
(* Properties *)

Position == [list : List \cup {Stream}, i : Nat \ {0}]
Result == {"none", "OK", "EINVAL", "EOVERFLOW", "lost"}

(* The return stack of cb_walk is an array of MaxDepth entries. *)
TypeOK ==
  /\ phase \in {"idle", "record", "walk"}
  /\ buf \in Seq(Command) /\ Len(buf) <= Cap /\ dropped \in Nat
  /\ \A i \in DOMAIN buf : Control(buf[i]) => buf[i].arg \in List \cup {Null}
  /\ pc \in Position
  /\ ret_stack \in Seq(Position) /\ Len(ret_stack) <= MaxDepth
  /\ result \in Result
  /\ visited \in Seq(Command) /\ turns \in Nat

(* What replaying means, said by recursion instead of a stack: the runs of  *)
(* the lists and the recorded stream b from position p with d calls still  *)
(* allowed, each with the commands it visits and how it ends.  Lists may   *)
(* branch back, so the recursion is on a bound n of the turns it takes.    *)
Ending(r) == {[seen |-> <<>>, result |-> r]}
Joined(r, s) == [seen |-> r.seen \o s.seen, result |-> s.result]
Following(c, runs) == {[r EXCEPT !.seen = <<c>> \o @] : r \in runs}
Resuming(runs, rest) ==
  {r \in runs : r.result # "OK"}
    \cup UNION {{Joined(r, s) : s \in rest} : r \in {q \in runs : q.result = "OK"}}

StepThen(b, rest, d, p) ==
  LET c == Fetch(b, p)
  IN  CASE Control(c) /\ c.arg = Null -> Ending("EINVAL")
        [] Leaving(c) -> Ending("OK")
        [] c.op = "off" -> Ending("lost")
        [] c.op = "visit" -> Following(c, rest[d][After(p)])
        [] c.op = "branch" /\ c.arg # Null ->
             Following(c, rest[d][After(p)] \cup rest[d][Top(c.arg)])
        [] c.op = "call" /\ c.arg # Null ->
             IF d = 0 THEN Ending("EOVERFLOW")
             ELSE Resuming(rest[d - 1][Top(c.arg)], rest[d][After(p)])

Runs(b) ==
  LET runs[n \in Nat] ==
        [d \in 0 .. MaxDepth |-> [p \in Position |->
           IF n = 0 THEN {} ELSE StepThen(b, runs[n - 1], d, p)]]
  IN  runs

(* The visitor sees the stream with every called list in place of its      *)
(* call, and a taken branch in place of the rest of its list; a malformed  *)
(* or over-deep stream ends there, and says so.                            *)
ReplaysInPlace ==
  result # "none" =>
    [seen |-> visited, result |-> result] \in Runs(buf)[turns][MaxDepth][Top(Stream)]

(* "Drop-with-count, never silently corrupt": a stream can lose its END to *)
(* a full buffer and the walk then leaves it, but not without a count.     *)
LostIsCounted == result = "lost" => dropped > 0

(* Every walk ends, a list that calls itself included. *)
WalkReturns == phase = "walk" ~> phase = "idle"

-----------------------------------------------------------------------------
(* The inductive invariant of the recording and the walk: a complete stream *)
(* is never left, neither going on nor coming back from a call.             *)

Ended == buf # <<>> /\ Leaving(buf[Len(buf)])
InList(p) == p.i <= Len(Text(buf, p.list))

Sound ==
  phase = "walk" /\ dropped = 0 =>
    /\ Ended /\ InList(pc)
    /\ \A k \in DOMAIN ret_stack : InList(ret_stack[k])

IInv == TypeOK /\ Sound /\ LostIsCounted
=============================================================================
