----------------------------- MODULE CmdWalkProof -----------------------------
(***************************************************************************)
(* Proofs about CmdWalk, for any lists, capacity and depth: the return     *)
(* stack keeps to its array, a walk leaves its list only when the stream   *)
(* lost commands, and counted them, and what the visitor has seen when it  *)
(* returns is a run of the stream by recursion, lists that branch back     *)
(* to themselves included.                                                 *)
(***************************************************************************)
EXTENDS CmdWalk, NaturalsInduction, WellFoundedInduction, SequenceTheorems, TLAPS

(* What the walker reads at a position, and where it goes on. *)
Buffer ==
  {b \in Seq(Command) : \A i \in DOMAIN b : Control(b[i]) => b[i].arg \in List \cup {Null}}

LEMMA FetchedType ==
  ASSUME NEW b \in Buffer, NEW p \in Position
  PROVE  /\ Fetch(b, p) \in Command \/ Fetch(b, p) = OffTheEnd
         /\ Control(Fetch(b, p)) => Fetch(b, p).arg \in List \cup {Null}
<1>1. Text(b, p.list) \in Seq(Command)
      /\ \A i \in DOMAIN Text(b, p.list) :
           Control(Text(b, p.list)[i]) => Text(b, p.list)[i].arg \in List \cup {Null}
  BY ListsAssumption DEF Buffer, Text, Position
<1>2. CASE p.i <= Len(Text(b, p.list))
  <2>1. p.i \in DOMAIN Text(b, p.list) /\ Fetch(b, p) = Text(b, p.list)[p.i]
    BY <1>1, <1>2 DEF Fetch, Position
  <2>2. Fetch(b, p) \in Command  BY <1>1, <2>1
  <2> QED BY <1>1, <1>2, <2>1, <2>2
<1>3. CASE ~(p.i <= Len(Text(b, p.list)))
  <2>1. Fetch(b, p) = OffTheEnd  BY <1>3 DEF Fetch
  <2> QED BY <1>3, <2>1 DEF OffTheEnd, Control
<1> QED BY <1>2, <1>3

LEMMA FetchType ==
  ASSUME TypeOK, NEW p \in Position
  PROVE  /\ Fetch(buf, p) \in Command \/ Fetch(buf, p) = OffTheEnd
         /\ Control(Fetch(buf, p)) => Fetch(buf, p).arg \in List \cup {Null}
         /\ InList(p) <=> Fetch(buf, p).op # "off"
<1>1. buf \in Buffer  BY DEF TypeOK, Buffer
<1>2. /\ Fetch(buf, p) \in Command \/ Fetch(buf, p) = OffTheEnd
      /\ Control(Fetch(buf, p)) => Fetch(buf, p).arg \in List \cup {Null}
  BY <1>1, FetchedType
<1>3. CASE InList(p)
  <2>1. Text(buf, p.list) \in Seq(Command)
    BY ListsAssumption DEF TypeOK, Text, Position
  <2>2. Fetch(buf, p) \in Command
    BY <1>3, <2>1 DEF InList, Fetch, Position
  <2> QED BY <1>2, <1>3, <2>2 DEF Command, Op
<1>4. CASE ~InList(p)
  BY <1>2, <1>4 DEF InList, Fetch, OffTheEnd
<1> QED BY <1>3, <1>4

LEMMA AfterType ==
  ASSUME NEW p \in Position
  PROVE  After(p) \in Position
<1>1. p.list \in List \cup {Stream} /\ p.i + 1 \in Nat \ {0}  BY DEF Position
<1>2. After(p) = [list |-> p.list, i |-> p.i + 1]  BY DEF After, Position
<1> QED BY <1>1, <1>2 DEF Position

LEMMA TopType ==
  ASSUME NEW l \in List \cup {Stream}
  PROVE  Top(l) \in Position
BY DEF Top, Position

LEMMA FrontOf ==
  ASSUME NEW stack \in Seq(Position), stack # <<>>
  PROVE  /\ SubSeq(stack, 1, Len(stack) - 1) \in Seq(Position)
         /\ Len(SubSeq(stack, 1, Len(stack) - 1)) = Len(stack) - 1
         /\ \A k \in 1 .. Len(stack) - 1 : SubSeq(stack, 1, Len(stack) - 1)[k] = stack[k]
<1> DEFINE n == Len(stack) - 1
<1>1. n \in Nat /\ \A i \in 1 .. n : stack[i] \in Position  OBVIOUS
<1> HIDE DEF n
<1>2. /\ SubSeq(stack, 1, n) \in Seq(Position)
      /\ Len(SubSeq(stack, 1, n)) = IF 1 <= n THEN n - 1 + 1 ELSE 0
      /\ \A i \in 1 .. n - 1 + 1 : SubSeq(stack, 1, n)[i] = stack[1 + i - 1]
  BY <1>1, SubSeqProperties
<1>3. Len(SubSeq(stack, 1, n)) = n  BY <1>1, <1>2
<1>4. \A i \in 1 .. n : i \in 1 .. n - 1 + 1 /\ 1 + i - 1 = i  BY <1>1
<1>5. \A i \in 1 .. n : SubSeq(stack, 1, n)[i] = stack[i]  BY <1>2, <1>4
<1> QED BY <1>2, <1>3, <1>5 DEF n

LEMMA TypeInit == Init => TypeOK
  BY LimitsAssumption DEF Init, TypeOK, Position, Result

LEMMA PushType ==
  ASSUME TypeOK, NEW c \in Command, Control(c) => c.arg \in List \cup {Null}, Push(c)
  PROVE  /\ buf' \in Seq(Command) /\ Len(buf') <= Cap /\ dropped' \in Nat
         /\ \A i \in DOMAIN buf' : Control(buf'[i]) => buf'[i].arg \in List \cup {Null}
         /\ dropped' = 0 => buf' = Append(buf, c)
<1>1. CASE Len(buf) >= Cap /\ dropped' = dropped + 1 /\ UNCHANGED buf
  BY <1>1 DEF TypeOK
<1>2. CASE Len(buf) < Cap /\ buf' = Append(buf, c) /\ UNCHANGED dropped
  <2>1. /\ buf' \in Seq(Command) /\ Len(buf') = Len(buf) + 1 /\ Len(buf) \in Nat
        /\ \A i \in DOMAIN buf' : buf'[i] = IF i = Len(buf) + 1 THEN c ELSE buf[i]
        /\ \A i \in DOMAIN buf' : i # Len(buf) + 1 => i \in DOMAIN buf
    BY <1>2 DEF TypeOK
  <2> QED BY <1>2, <2>1, LimitsAssumption DEF TypeOK
<1> QED BY <1>1, <1>2 DEF Push

LEMMA TypeStep == TypeOK /\ [Next]_vars => TypeOK'
<1> SUFFICES ASSUME TypeOK, [Next]_vars PROVE TypeOK'
  OBVIOUS
<1> DEFINE Read == Fetch(buf, pc)
<1>0. /\ Read \in Command \/ Read = OffTheEnd
      /\ Control(Read) => Read.arg \in List \cup {Null}
  BY FetchType DEF TypeOK
<1>1. CASE Reset
  BY <1>1, LimitsAssumption DEF TypeOK, Reset, Result
<1>2. ASSUME NEW c \in Recorded, Record(c) PROVE TypeOK'
  <2>1. c \in Command /\ (Control(c) => c.arg \in List \cup {Null})
    BY <1>2, ListsAssumption
  <2>2. Push(c) /\ UNCHANGED <<phase, walk>>  BY <1>2 DEF Record
  <2>3. /\ buf' \in Seq(Command) /\ Len(buf') <= Cap /\ dropped' \in Nat
        /\ \A i \in DOMAIN buf' : Control(buf'[i]) => buf'[i].arg \in List \cup {Null}
    BY <2>1, <2>2, PushType
  <2> QED BY <2>2, <2>3 DEF TypeOK, walk
<1>3. CASE Submit
  <2>1. End \in Command /\ (Control(End) => End.arg \in List \cup {Null})
    BY DEF End, Command, Op
  <2>2. /\ buf' \in Seq(Command) /\ Len(buf') <= Cap /\ dropped' \in Nat
        /\ \A i \in DOMAIN buf' : Control(buf'[i]) => buf'[i].arg \in List \cup {Null}
    BY <1>3, <2>1, PushType DEF Submit
  <2>3. pc' \in Position /\ ret_stack' \in Seq(Position) /\ Len(ret_stack') <= MaxDepth
    BY <1>3, LimitsAssumption DEF Submit, Position
  <2> QED BY <1>3, <2>2, <2>3 DEF TypeOK, Submit
<1>4. ASSUME NEW r \in Result, Stop(r) PROVE TypeOK'
  BY <1>4 DEF TypeOK, Stop, cb
<1>5. ASSUME NEW p \in Position, NEW stack \in Seq(Position), Len(stack) <= MaxDepth,
             Jump(p, stack), visited' \in Seq(Command)
      PROVE  TypeOK'
  BY <1>5 DEF TypeOK, Jump, cb
<1>6. After(pc) \in Position /\ ret_stack \in Seq(Position) /\ Len(ret_stack) <= MaxDepth
  BY AfterType DEF TypeOK
<1>7. \A l \in List : Top(l) \in Position
  BY DEF Top, Position
<1>8. Read \in Command => Append(visited, Read) \in Seq(Command)
  BY DEF TypeOK
<1>9. CASE CallList
  <2>1. Read.op = "call"  BY <1>9 DEF CallList, Walking, Here
  <2>2. CASE Stop("EINVAL") \/ Stop("EOVERFLOW")
    BY <2>2, <1>4 DEF Result
  <2>3. CASE /\ Read.arg # Null /\ Len(ret_stack) < MaxDepth
             /\ Jump(Top(Read.arg), Append(ret_stack, After(pc))) /\ UNCHANGED visited
    <3>1. Read.arg \in List  BY <1>0, <2>1, <2>3 DEF Control
    <3>2. Append(ret_stack, After(pc)) \in Seq(Position)
          /\ Len(Append(ret_stack, After(pc))) <= MaxDepth
      BY <1>6, <2>3, LimitsAssumption
    <3>3. visited' \in Seq(Command)  BY <2>3 DEF TypeOK
    <3> QED BY <1>5, <1>7, <2>3, <3>1, <3>2, <3>3
  <2> QED BY <1>9, <2>2, <2>3 DEF CallList, Here
<1>10. CASE BranchLessZ
  <2>1. Read.op = "branch"  BY <1>10 DEF BranchLessZ, Walking, Here
  <2>2. CASE Stop("EINVAL")
    BY <2>2, <1>4 DEF Result
  <2>3. CASE /\ Read.arg # Null /\ visited' = Append(visited, Read)
             /\ Jump(Top(Read.arg), ret_stack) \/ Jump(After(pc), ret_stack)
    <3>1. Read.arg \in List  BY <1>0, <2>1, <2>3 DEF Control
    <3>2. visited' \in Seq(Command)
      BY <1>0, <1>8, <2>1, <2>3 DEF OffTheEnd
    <3> QED BY <1>5, <1>6, <1>7, <2>3, <3>1, <3>2
  <2> QED BY <1>10, <2>2, <2>3 DEF BranchLessZ, Here
<1>11. CASE Leave
  <2>1. CASE Stop("OK")
    BY <2>1, <1>4 DEF Result
  <2>2. CASE /\ ret_stack # <<>>
             /\ Jump(ret_stack[Len(ret_stack)], SubSeq(ret_stack, 1, Len(ret_stack) - 1))
             /\ UNCHANGED visited
    <3>1. Len(ret_stack) \in Nat \ {0}  BY <1>6, <2>2
    <3>2. ret_stack[Len(ret_stack)] \in Position  BY <1>6, <3>1
    <3>3. SubSeq(ret_stack, 1, Len(ret_stack) - 1) \in Seq(Position)
          /\ Len(SubSeq(ret_stack, 1, Len(ret_stack) - 1)) = Len(ret_stack) - 1
      BY <1>6, <2>2, FrontOf
    <3>4. Len(ret_stack) - 1 <= MaxDepth  BY <1>6, <3>1, LimitsAssumption
    <3>5. visited' \in Seq(Command)  BY <2>2 DEF TypeOK
    <3> QED BY <1>5, <2>2, <3>2, <3>3, <3>4, <3>5
  <2> QED BY <1>11, <2>1, <2>2 DEF Leave
<1>12. CASE Visit
  <2>1. Read.op = "visit" /\ visited' = Append(visited, Read) /\ Jump(After(pc), ret_stack)
    BY <1>12 DEF Visit, Walking, Here
  <2>2. visited' \in Seq(Command)
    BY <1>0, <1>8, <2>1 DEF OffTheEnd
  <2> QED BY <1>5, <1>6, <2>1, <2>2
<1>13. CASE RunOff
  BY <1>13, <1>4 DEF RunOff, Result
<1>14. CASE UNCHANGED vars
  BY <1>14 DEF TypeOK, vars, cb, walk
<1> QED
  BY <1>1, <1>2, <1>3, <1>9, <1>10, <1>11, <1>12, <1>13, <1>14 DEF Next, Walk

(* The walker never writes past its array of MaxDepth return pointers, and *)
(* cb_push never past the buffer.                                          *)
THEOREM TypeCorrect == Spec => []TypeOK
<1> QED BY TypeInit, TypeStep, PTL DEF Spec

-----------------------------------------------------------------------------
(* Staying in the list *)

(* In a list that ends in a RETURN or an END, a command that is neither has *)
(* one after it.                                                            *)
LEMMA Continues ==
  ASSUME TypeOK, Ended, NEW p \in Position, InList(p), ~Leaving(Fetch(buf, p))
  PROVE  InList(After(p))
<1>1. Text(buf, p.list) \in Seq(Command) /\ Leaving(Text(buf, p.list)[Len(Text(buf, p.list))])
  BY ListsAssumption DEF TypeOK, Ended, Text, Position
<1>2. p.i # Len(Text(buf, p.list))  BY <1>1 DEF InList, Fetch
<1>3. p.i + 1 <= Len(Text(buf, p.list))  BY <1>1, <1>2 DEF InList, Position
<1> QED BY <1>3 DEF InList, After, Position

(* Every list has a first command. *)
LEMMA Begins ==
  ASSUME TypeOK, Ended, NEW l \in List \cup {Stream}
  PROVE  InList(Top(l))
<1>1. Text(buf, l) \in Seq(Command) /\ Text(buf, l) # <<>>
  BY ListsAssumption DEF TypeOK, Ended, Text
<1>2. Len(Text(buf, l)) >= 1  BY <1>1
<1> QED BY <1>2 DEF InList, Top

LEMMA SoundStep == IInv /\ [Next]_vars => Sound' /\ LostIsCounted'
<1> SUFFICES ASSUME IInv, [Next]_vars PROVE Sound' /\ LostIsCounted'
  OBVIOUS
<1> DEFINE Read == Fetch(buf, pc)
<1>0. TypeOK /\ Sound /\ LostIsCounted  BY DEF IInv
<1>1. CASE Reset
  BY <1>1 DEF Reset, Sound, LostIsCounted
<1>2. ASSUME NEW c \in Recorded, Record(c) PROVE Sound' /\ LostIsCounted'
  <2>1. phase' = "record" /\ result' = result /\ dropped' \in {dropped, dropped + 1}
    BY <1>2 DEF Record, Push, walk
  <2> QED BY <1>0, <2>1 DEF Sound, LostIsCounted, TypeOK
<1>3. CASE Submit
  <2>0. End \in Command /\ (Control(End) => End.arg \in List \cup {Null}) /\ Leaving(End)
    BY DEF End, Command, Op, Control, Leaving
  <2>1. /\ Push(End) /\ phase' = "walk" /\ pc' = Top(Stream) /\ ret_stack' = <<>>
        /\ result' = result
    BY <1>3 DEF Submit, Top
  <2>2. TypeOK'  BY <1>0, TypeStep
  <2>3. dropped' = 0 => buf' = Append(buf, End)  BY <1>0, <2>0, <2>1, PushType
  <2>4. dropped' = 0 => Ended'
    BY <1>0, <2>0, <2>3 DEF Ended, TypeOK
  <2>5. dropped' = 0 => InList(Top(Stream))'
    BY <2>4, <2>2 DEF Ended, TypeOK, InList, Top, Text
  <2>6. Sound'
    BY <2>1, <2>4, <2>5 DEF Sound, InList, Text
  <2>7. LostIsCounted'
    BY <1>0, <2>1 DEF LostIsCounted, TypeOK, Push
  <2> QED BY <2>6, <2>7
<1>4. ASSUME NEW r, Stop(r), r # "lost" PROVE Sound' /\ LostIsCounted'
  BY <1>4 DEF Stop, Sound, LostIsCounted
<1>5. ASSUME phase = "walk", NEW p, NEW stack, Jump(p, stack),
             dropped = 0 => InList(p) /\ \A k \in DOMAIN stack : InList(stack[k])
      PROVE  Sound' /\ LostIsCounted'
  <2>1. UNCHANGED <<phase, buf, dropped, result>> /\ pc' = p /\ ret_stack' = stack
    BY <1>5 DEF Jump, cb
  <2>2. Ended' <=> Ended  BY <2>1 DEF Ended
  <2>4. InList(pc)' <=> InList(p)  BY <2>1 DEF InList, Text
  <2>5. (\A k \in DOMAIN ret_stack : InList(ret_stack[k]))'
        <=> \A k \in DOMAIN stack : InList(stack[k])
    BY <2>1 DEF InList, Text
  <2> QED BY <1>0, <1>5, <2>1, <2>2, <2>4, <2>5 DEF Sound, LostIsCounted
<1>6. phase = "walk" /\ dropped = 0 =>
        /\ Ended /\ InList(pc) /\ \A k \in DOMAIN ret_stack : InList(ret_stack[k])
  BY <1>0 DEF Sound
<1>7. pc \in Position /\ ret_stack \in Seq(Position)
  BY <1>0 DEF TypeOK
<1>8. phase = "walk" /\ dropped = 0 /\ ~Leaving(Read) => InList(After(pc))
  BY <1>0, <1>6, <1>7, Continues
<1>9. CASE CallList
  <2>1. phase = "walk" /\ Read.op = "call"
    BY <1>9 DEF CallList, Walking, Here
  <2>2. CASE Stop("EINVAL") \/ Stop("EOVERFLOW")
    BY <2>2, <1>4
  <2>3. CASE Read.arg # Null /\ Jump(Top(Read.arg), Append(ret_stack, After(pc)))
    <3>1. Read.arg \in List
      BY <1>0, <1>7, <2>1, <2>3, FetchType DEF Control
    <3>2. dropped = 0 => InList(Top(Read.arg))
      BY <1>0, <1>6, <2>1, <3>1, Begins
    <3>3. dropped = 0 => InList(After(pc))
      BY <1>8, <2>1 DEF Leaving
    <3>4. dropped = 0 => \A k \in DOMAIN Append(ret_stack, After(pc)) :
                           InList(Append(ret_stack, After(pc))[k])
      <4>1. \A k \in DOMAIN Append(ret_stack, After(pc)) :
              \/ k \in DOMAIN ret_stack /\ Append(ret_stack, After(pc))[k] = ret_stack[k]
              \/ Append(ret_stack, After(pc))[k] = After(pc)
        BY <1>7
      <4> QED BY <1>6, <2>1, <3>3, <4>1
    <3> QED BY <1>5, <2>1, <2>3, <3>2, <3>4
  <2> QED BY <1>9, <2>2, <2>3 DEF CallList, Here
<1>10. CASE BranchLessZ
  <2>1. phase = "walk" /\ Read.op = "branch"
    BY <1>10 DEF BranchLessZ, Walking, Here
  <2>2. CASE Stop("EINVAL")
    BY <2>2, <1>4
  <2>3. CASE Read.arg # Null /\ Jump(Top(Read.arg), ret_stack)
    <3>1. Read.arg \in List
      BY <1>0, <1>7, <2>1, <2>3, FetchType DEF Control
    <3>2. dropped = 0 => InList(Top(Read.arg))
      BY <1>0, <1>6, <2>1, <3>1, Begins
    <3> QED BY <1>5, <1>6, <2>1, <2>3, <3>2
  <2>4. CASE Jump(After(pc), ret_stack)
    <3>1. dropped = 0 => InList(After(pc))
      BY <1>8, <2>1 DEF Leaving
    <3> QED BY <1>5, <1>6, <2>1, <2>4, <3>1
  <2> QED BY <1>10, <2>2, <2>3, <2>4 DEF BranchLessZ, Here
<1>11. CASE Leave
  <2>1. CASE Stop("OK")
    BY <2>1, <1>4
  <2>2. CASE /\ ret_stack # <<>>
             /\ Jump(ret_stack[Len(ret_stack)], SubSeq(ret_stack, 1, Len(ret_stack) - 1))
    <3>1. phase = "walk"  BY <1>11 DEF Leave, Walking
    <3>2. Len(ret_stack) \in DOMAIN ret_stack  BY <1>7, <2>2
    <3>3. \A k \in DOMAIN SubSeq(ret_stack, 1, Len(ret_stack) - 1) :
            /\ k \in DOMAIN ret_stack
            /\ SubSeq(ret_stack, 1, Len(ret_stack) - 1)[k] = ret_stack[k]
      BY <1>7, <3>2
    <3> QED BY <1>5, <1>6, <2>2, <3>1, <3>2, <3>3
  <2> QED BY <1>11, <2>1, <2>2 DEF Leave
<1>12. CASE Visit
  <2>1. phase = "walk" /\ Read.op = "visit" /\ Jump(After(pc), ret_stack)
    BY <1>12 DEF Visit, Walking, Here
  <2>2. dropped = 0 => InList(After(pc))
    BY <1>8, <2>1 DEF Leaving
  <2> QED BY <1>5, <1>6, <2>1, <2>2
<1>13. CASE RunOff
  <2>1. phase = "walk" /\ Read.op = "off" /\ Stop("lost")
    BY <1>13 DEF RunOff, Walking, Here
  <2>2. dropped # 0
    BY <1>0, <1>6, <1>7, <2>1, FetchType
  <2> QED BY <1>0, <2>1, <2>2 DEF Stop, cb, Sound, LostIsCounted, TypeOK
<1>14. CASE UNCHANGED vars
  BY <1>0, <1>14 DEF vars, cb, walk, Sound, LostIsCounted, Ended, InList, Text
<1> QED
  BY <1>1, <1>2, <1>3, <1>9, <1>10, <1>11, <1>12, <1>13, <1>14 DEF Next, Walk

(* A stream that lost nothing ends, and no position the walk goes on from  *)
(* or comes back to lies past the end of its list.                         *)
THEOREM Inductive == Spec => []IInv
<1>1. Init => IInv
  BY TypeInit DEF Init, IInv, Sound, LostIsCounted
<1>2. IInv /\ [Next]_vars => IInv'
  BY TypeStep, SoundStep DEF IInv
<1> QED BY <1>1, <1>2, PTL DEF Spec

(* A walk runs off its stream only when cb_push counted a loss. *)
THEOREM LossesAreCounted == Spec => []LostIsCounted
<1>1. IInv => LostIsCounted  BY DEF IInv
<1> QED BY <1>1, Inductive, PTL
-----------------------------------------------------------------------------
(* Induction, for sets: a set of numbers has a least one, so that one with  *)
(* 0 and the successor of each of its members has them all.                *)
LEMMA LeastOf ==
  ASSUME NEW T \in SUBSET Nat, T # {}
  PROVE  \E n \in T : \A m \in T : n <= m
<1> DEFINE R == OpToRel(<, Nat)
<1>1. IsWellFoundedOn(R, Nat)  BY NatLessThanWellFounded
<1>2. \A m, n \in Nat : m < n => <<m, n>> \in R  BY DEF OpToRel
<1> HIDE DEF R
<1>3. PICK n \in T : \A m \in T : ~(<<m, n>> \in R)  BY <1>1, WFMin
<1>4. \A m \in T : n \in Nat /\ m \in Nat /\ ~(m < n)  BY <1>2, <1>3
<1>5. \A m \in T : n <= m  BY <1>4
<1> QED BY <1>5

LEMMA SetInduction ==
  ASSUME NEW T, 0 \in T, \A n \in Nat : n \in T => n + 1 \in T
  PROVE  Nat \subseteq T
<1>1. SUFFICES ASSUME Nat \ T # {} PROVE FALSE
  OBVIOUS
<1>2. PICK n \in Nat \ T : \A m \in Nat \ T : n <= m
  BY <1>1, LeastOf
<1>3. n # 0 /\ n - 1 \in Nat  BY <1>2
<1>4. n - 1 \in T  BY <1>2, <1>3
<1> QED BY <1>2, <1>3, <1>4

(* What is defined by recursion exists: a map of a set to itself can be     *)
(* applied over and over.                                                  *)
Iterates(X, x, T, n, g) ==
  g \in [0 .. n -> X] /\ g[0] = x /\ \A i \in 0 .. n - 1 : g[i + 1] = T[g[i]]

LEMMA IterateOn ==
  ASSUME NEW X, NEW x \in X, NEW T \in [X -> X], NEW n \in Nat, NEW g, Iterates(X, x, T, n, g)
  PROVE  \E h : Iterates(X, x, T, n + 1, h)
<1> DEFINE h == [i \in 0 .. n + 1 |-> IF i <= n THEN g[i] ELSE T[g[n]]]
<1>1. /\ g \in [0 .. n -> X] /\ g[0] = x /\ g[n] \in X
      /\ \A i \in 0 .. n - 1 : g[i + 1] = T[g[i]]
  BY DEF Iterates
<1>2. \A i \in 0 .. n : i \in 0 .. n + 1 /\ h[i] = g[i] /\ g[i] \in X
  BY <1>1
<1>3. n + 1 \in 0 .. n + 1 /\ h[n + 1] = T[g[n]]
  OBVIOUS
<1>4. h \in [0 .. n + 1 -> X]
  BY <1>1
<1> HIDE DEF h
<1>5. ASSUME NEW i \in 0 .. n + 1 - 1 PROVE h[i + 1] = T[h[i]]
  <2>1. CASE i = n  BY <1>2, <1>3, <2>1
  <2>2. CASE i # n
    <3>1. i \in 0 .. n /\ i + 1 \in 0 .. n /\ i \in 0 .. n - 1  BY <2>2
    <3> QED BY <1>1, <1>2, <3>1
  <2> QED BY <2>1, <2>2
<1>6. h[0] = x  BY <1>1, <1>2
<1> QED BY <1>4, <1>5, <1>6 DEF Iterates

LEMMA IteratesAgree ==
  ASSUME NEW X, NEW x \in X, NEW T \in [X -> X], NEW n \in Nat, NEW g, NEW h,
         Iterates(X, x, T, n, g), Iterates(X, x, T, n + 1, h)
  PROVE  g[n] = h[n]
<1> DEFINE Same == {i \in Nat : i <= n => g[i] = h[i]}
<1>1. 0 \in Same  BY DEF Iterates
<1>2. ASSUME NEW i \in Nat, i \in Same PROVE i + 1 \in Same
  <2>1. i + 1 <= n => i \in 0 .. n - 1 /\ i \in 0 .. n + 1 - 1 /\ i <= n  OBVIOUS
  <2> QED BY <1>2, <2>1 DEF Iterates
<1>3. n \in Same
  <2> HIDE DEF Same
  <2> QED BY <1>1, <1>2, SetInduction
<1> QED BY <1>3

LEMMA Iteration ==
  ASSUME NEW X, NEW x \in X, NEW T \in [X -> X]
  PROVE  \E f \in [Nat -> X] : f[0] = x /\ \A n \in Nat : f[n + 1] = T[f[n]]
<1> DEFINE Good == {n \in Nat : \E g : Iterates(X, x, T, n, g)}
           to(n) == CHOOSE g : Iterates(X, x, T, n, g)
           f == [n \in Nat |-> to(n)[n]]
<1>1. 0 \in Good
  <2> DEFINE g == [i \in 0 .. 0 |-> x]
  <2>1. g \in [0 .. 0 -> X] /\ g[0] = x  OBVIOUS
  <2>2. \A i \in 0 .. 0 - 1 : FALSE  OBVIOUS
  <2> HIDE DEF g
  <2>3. Iterates(X, x, T, 0, g)  BY <2>1, <2>2 DEF Iterates
  <2> QED BY <2>3
<1>2. \A n \in Nat : n \in Good => n + 1 \in Good
  BY IterateOn
<1>3. \A n \in Nat : n \in Good
  <2> HIDE DEF Good
  <2> QED BY <1>1, <1>2, SetInduction
<1>4. \A n \in Nat : Iterates(X, x, T, n, to(n))
  BY <1>3
<1> HIDE DEF to, Good
<1>5. \A n \in Nat : to(n)[n] = to(n + 1)[n]
  BY <1>4, IteratesAgree
<1>6. \A n \in Nat : to(n)[n] \in X
  BY <1>4 DEF Iterates
<1>7. \A n \in Nat : to(n + 1)[n + 1] = T[to(n + 1)[n]]
  <2> TAKE n \in Nat
  <2>1. n \in 0 .. n + 1 - 1 /\ n + 1 \in Nat  OBVIOUS
  <2> QED BY <1>4, <2>1 DEF Iterates
<1>8. to(0)[0] = x  BY <1>4 DEF Iterates
<1>9. f \in [Nat -> X]  BY <1>6
<1>10. f[0] = x  BY <1>8
<1>11. \A n \in Nat : f[n + 1] = T[f[n]]
  BY <1>5, <1>7
<1> QED BY <1>9, <1>10, <1>11

-----------------------------------------------------------------------------
(* The replay by recursion: what its runs are. *)
Run == [seen : Seq(Command), result : Result]
Calls == 0 .. MaxDepth
Replay == [Calls -> [Position -> SUBSET Run]]

LEMMA StepInvalid ==
  ASSUME NEW b, NEW rest, NEW d, NEW p, Control(Fetch(b, p)), Fetch(b, p).arg = Null
  PROVE  StepThen(b, rest, d, p) = Ending("EINVAL")
BY DEF StepThen, Control, Leaving

LEMMA StepLeaving ==
  ASSUME NEW b, NEW rest, NEW d, NEW p, Leaving(Fetch(b, p))
  PROVE  StepThen(b, rest, d, p) = Ending("OK")
BY DEF StepThen, Control, Leaving

LEMMA StepOff ==
  ASSUME NEW b, NEW rest, NEW d, NEW p, Fetch(b, p).op = "off"
  PROVE  StepThen(b, rest, d, p) = Ending("lost")
BY DEF StepThen, Control, Leaving

LEMMA StepVisit ==
  ASSUME NEW b, NEW rest, NEW d, NEW p, Fetch(b, p).op = "visit"
  PROVE  StepThen(b, rest, d, p) = Following(Fetch(b, p), rest[d][After(p)])
BY DEF StepThen, Control, Leaving

LEMMA StepBranch ==
  ASSUME NEW b, NEW rest, NEW d, NEW p, Fetch(b, p).op = "branch", Fetch(b, p).arg # Null
  PROVE  StepThen(b, rest, d, p) =
           Following(Fetch(b, p), rest[d][After(p)] \cup rest[d][Top(Fetch(b, p).arg)])
BY DEF StepThen, Control, Leaving

LEMMA StepTooDeep ==
  ASSUME NEW b, NEW rest, NEW d, NEW p, Fetch(b, p).op = "call", Fetch(b, p).arg # Null, d = 0
  PROVE  StepThen(b, rest, d, p) = Ending("EOVERFLOW")
BY DEF StepThen, Control, Leaving

LEMMA StepCall ==
  ASSUME NEW b, NEW rest, NEW d, NEW p, Fetch(b, p).op = "call", Fetch(b, p).arg # Null, d # 0
  PROVE  StepThen(b, rest, d, p) =
           Resuming(rest[d - 1][Top(Fetch(b, p).arg)], rest[d][After(p)])
BY DEF StepThen, Control, Leaving

LEMMA StepKinds ==
  ASSUME NEW b \in Buffer, NEW p \in Position
  PROVE  \/ Control(Fetch(b, p)) /\ Fetch(b, p).arg = Null
         \/ Leaving(Fetch(b, p))
         \/ Fetch(b, p).op = "off"
         \/ Fetch(b, p).op = "visit" /\ Fetch(b, p) \in Command
         \/ /\ Fetch(b, p).op = "branch" /\ Fetch(b, p) \in Command
            /\ Fetch(b, p).arg \in List /\ Fetch(b, p).arg # Null
         \/ /\ Fetch(b, p).op = "call" /\ Fetch(b, p) \in Command
            /\ Fetch(b, p).arg \in List /\ Fetch(b, p).arg # Null
<1> DEFINE c == Fetch(b, p)
<1>1. c \in Command \/ c = OffTheEnd
  BY FetchedType
<1>2. Control(c) => c.arg \in List \cup {Null}
  BY FetchedType
<1> HIDE DEF c
<1>3. CASE c = OffTheEnd  BY <1>3 DEF OffTheEnd, c
<1>4. CASE c \in Command
  <2>1. c.op \in Op  BY <1>4 DEF Command
  <2>2. CASE Control(c)  BY <1>2, <1>4, <2>2, ListsAssumption DEF Control, c
  <2>3. CASE ~Control(c)  BY <1>4, <2>1, <2>3 DEF Op, Control, Leaving, c
  <2> QED BY <2>2, <2>3
<1> QED BY <1>1, <1>3, <1>4

LEMMA EndingType ==
  ASSUME NEW r \in Result
  PROVE  Ending(r) \in SUBSET Run
<1>1. <<>> \in Seq(Command)  OBVIOUS
<1>2. [seen |-> <<>>, result |-> r] \in Run  BY <1>1 DEF Run
<1> QED BY <1>2 DEF Ending

LEMMA Followed ==
  ASSUME NEW c \in Command, NEW r \in Run
  PROVE  /\ [r EXCEPT !.seen = <<c>> \o @] = [seen |-> <<c>> \o r.seen, result |-> r.result]
         /\ [r EXCEPT !.seen = <<c>> \o @] \in Run
<1>1. r = [seen |-> r.seen, result |-> r.result] /\ r.seen \in Seq(Command) /\ r.result \in Result
  BY DEF Run
<1>2. <<c>> \o r.seen \in Seq(Command)
  BY <1>1, ConcatProperties
<1>3. [r EXCEPT !.seen = <<c>> \o @] = [seen |-> <<c>> \o r.seen, result |-> r.result]
  <2> DEFINE s == <<c>> \o r.seen
  <2> HIDE DEF s
  <2>1. [r EXCEPT !.seen = s] = [seen |-> s, result |-> r.result]
    BY <1>1
  <2> QED BY <2>1 DEF s
<1> QED BY <1>1, <1>2, <1>3 DEF Run

LEMMA FollowingType ==
  ASSUME NEW c \in Command, NEW rs \in SUBSET Run
  PROVE  Following(c, rs) \in SUBSET Run
BY Followed DEF Following

LEMMA JoinedType ==
  ASSUME NEW r \in Run, NEW s \in Run
  PROVE  Joined(r, s) \in Run
<1>1. r.seen \in Seq(Command) /\ s.seen \in Seq(Command) /\ s.result \in Result
  BY DEF Run
<1>2. r.seen \o s.seen \in Seq(Command)
  BY <1>1, ConcatProperties
<1> QED BY <1>1, <1>2 DEF Joined, Run

LEMMA ResumingType ==
  ASSUME NEW rs \in SUBSET Run, NEW ss \in SUBSET Run
  PROVE  Resuming(rs, ss) \in SUBSET Run
BY JoinedType DEF Resuming

LEMMA StepType ==
  ASSUME NEW b \in Buffer, NEW rest \in Replay, NEW d \in Calls, NEW p \in Position
  PROVE  StepThen(b, rest, d, p) \in SUBSET Run
<1> DEFINE c == Fetch(b, p)
<1>1. \A e \in Calls, q \in Position : rest[e][q] \in SUBSET Run
  BY DEF Replay
<1>2. rest[d][After(p)] \in SUBSET Run
  BY <1>1, AfterType
<1>3. \A l \in List : Top(l) \in Position
  BY TopType
<1>4. \A r \in {"OK", "EINVAL", "EOVERFLOW", "lost"} : Ending(r) \in SUBSET Run
  BY EndingType DEF Result
<1> HIDE DEF c
<1>5. CASE Control(c) /\ c.arg = Null  BY <1>4, <1>5, StepInvalid DEF c
<1>6. CASE Leaving(c)  BY <1>4, <1>6, StepLeaving DEF c
<1>7. CASE c.op = "off"  BY <1>4, <1>7, StepOff DEF c
<1>8. CASE c.op = "visit" /\ c \in Command
  BY <1>2, <1>8, StepVisit, FollowingType DEF c
<1>9. CASE c.op = "branch" /\ c \in Command /\ c.arg \in List /\ c.arg # Null
  <2>1. rest[d][After(p)] \cup rest[d][Top(c.arg)] \in SUBSET Run
    BY <1>1, <1>2, <1>3, <1>9
  <2> QED BY <1>9, <2>1, StepBranch, FollowingType DEF c
<1>10. CASE c.op = "call" /\ c \in Command /\ c.arg \in List /\ c.arg # Null
  <2>1. CASE d = 0  BY <1>4, <1>10, <2>1, StepTooDeep DEF c
  <2>2. CASE d # 0
    <3>1. d - 1 \in Calls  BY <2>2, LimitsAssumption DEF Calls
    <3>2. rest[d - 1][Top(c.arg)] \in SUBSET Run  BY <1>1, <1>3, <1>10, <3>1
    <3> QED BY <1>2, <1>10, <2>2, <3>2, StepCall, ResumingType DEF c
  <2> QED BY <2>1, <2>2
<1> QED BY <1>5, <1>6, <1>7, <1>8, <1>9, <1>10, StepKinds DEF c

(* One replay has all the runs of another. *)
Below(rest, more) == \A d \in Calls, p \in Position : rest[d][p] \subseteq more[d][p]

LEMMA FollowingGrows ==
  ASSUME NEW c, NEW rs, NEW more, rs \subseteq more
  PROVE  Following(c, rs) \subseteq Following(c, more)
BY DEF Following

LEMMA ResumingGrows ==
  ASSUME NEW rs, NEW more, rs \subseteq more, NEW ss, NEW sss, ss \subseteq sss
  PROVE  Resuming(rs, ss) \subseteq Resuming(more, sss)
BY DEF Resuming

LEMMA StepGrows ==
  ASSUME NEW b \in Buffer, NEW rest, NEW more, Below(rest, more),
         NEW d \in Calls, NEW p \in Position
  PROVE  StepThen(b, rest, d, p) \subseteq StepThen(b, more, d, p)
<1> DEFINE c == Fetch(b, p)
<1>1. \A e \in Calls, q \in Position : rest[e][q] \subseteq more[e][q]
  BY DEF Below
<1>2. rest[d][After(p)] \subseteq more[d][After(p)]
  BY <1>1, AfterType
<1>3. \A l \in List : Top(l) \in Position
  BY TopType
<1> HIDE DEF c
<1>5. CASE Control(c) /\ c.arg = Null  BY <1>5, StepInvalid DEF c
<1>6. CASE Leaving(c)  BY <1>6, StepLeaving DEF c
<1>7. CASE c.op = "off"  BY <1>7, StepOff DEF c
<1>8. CASE c.op = "visit" /\ c \in Command
  BY <1>2, <1>8, StepVisit, FollowingGrows DEF c
<1>9. CASE c.op = "branch" /\ c \in Command /\ c.arg \in List /\ c.arg # Null
  <2>1. rest[d][After(p)] \cup rest[d][Top(c.arg)]
          \subseteq more[d][After(p)] \cup more[d][Top(c.arg)]
    BY <1>1, <1>2, <1>3, <1>9
  <2>2. Following(c, rest[d][After(p)] \cup rest[d][Top(c.arg)])
          \subseteq Following(c, more[d][After(p)] \cup more[d][Top(c.arg)])
    BY <2>1, FollowingGrows
  <2> QED BY <1>9, <2>2, StepBranch DEF c
<1>10. CASE c.op = "call" /\ c \in Command /\ c.arg \in List /\ c.arg # Null
  <2>1. CASE d = 0  BY <1>10, <2>1, StepTooDeep DEF c
  <2>2. CASE d # 0
    <3>1. d - 1 \in Calls  BY <2>2, LimitsAssumption DEF Calls
    <3>2. rest[d - 1][Top(c.arg)] \subseteq more[d - 1][Top(c.arg)]  BY <1>1, <1>3, <1>10, <3>1
    <3> QED BY <1>2, <1>10, <2>2, <3>2, StepCall, ResumingGrows DEF c
  <2> QED BY <2>1, <2>2
<1> QED BY <1>5, <1>6, <1>7, <1>8, <1>9, <1>10, StepKinds DEF c

-----------------------------------------------------------------------------
(* Runs is that recursion: no runs of no steps, and a step more by StepThen. *)
NoRuns == [d \in Calls |-> [p \in Position |-> {}]]
OneMore(b, rest) == [d \in Calls |-> [p \in Position |-> StepThen(b, rest, d, p)]]

LEMMA Recursion ==
  ASSUME NEW more \in [Replay -> Replay], NoRuns \in Replay
  PROVE  \E f \in [Nat -> Replay] : f[0] = NoRuns /\ \A n \in Nat : f[n + 1] = more[f[n]]
BY Iteration

LEMMA RunsExist ==
  ASSUME NEW b \in Buffer
  PROVE  \E f : f = [n \in Nat |->
                      [d \in Calls |-> [p \in Position |->
                         IF n = 0 THEN {} ELSE StepThen(b, f[n - 1], d, p)]]]
<1> DEFINE more == [rest \in Replay |-> OneMore(b, rest)]
<1>1. more \in [Replay -> Replay]
  BY StepType DEF Replay, OneMore
<1>2. NoRuns \in Replay
  BY DEF NoRuns, Replay
<1>3. PICK f \in [Nat -> Replay] : f[0] = NoRuns /\ \A n \in Nat : f[n + 1] = more[f[n]]
  <2> HIDE DEF more
  <2> QED BY <1>1, <1>2, Recursion
<1> DEFINE Level(n) == [d \in Calls |-> [p \in Position |->
                         IF n = 0 THEN {} ELSE StepThen(b, f[n - 1], d, p)]]
<1>4. ASSUME NEW n \in Nat PROVE f[n] = Level(n)
  <2>1. CASE n = 0  BY <1>3, <2>1 DEF NoRuns
  <2>2. CASE n # 0
    <3>1. n - 1 \in Nat /\ (n - 1) + 1 = n  BY <2>2
    <3>2. f[n] = more[f[n - 1]] /\ f[n - 1] \in Replay  BY <1>3, <3>1
    <3>3. f[n] = OneMore(b, f[n - 1])  BY <3>2
    <3> QED BY <2>2, <3>3 DEF OneMore
  <2> QED BY <2>1, <2>2
<1>5. f = [n \in Nat |-> Level(n)]
  <2> HIDE DEF Level
  <2> QED BY <1>3, <1>4
<1> QED BY <1>5

LEMMA RunsByStep ==
  ASSUME NEW b \in Buffer
  PROVE  /\ Runs(b)[0] = NoRuns
         /\ \A n \in Nat : Runs(b)[n + 1] = OneMore(b, Runs(b)[n])
<1> DEFINE f == Runs(b)
<1>1. f = [n \in Nat |-> [d \in Calls |-> [p \in Position |->
                         IF n = 0 THEN {} ELSE StepThen(b, f[n - 1], d, p)]]]
  BY RunsExist, Zenon DEF Runs, Calls
<1> HIDE DEF f
<1>2. f[0] = NoRuns  BY <1>1 DEF NoRuns
<1>3. ASSUME NEW n \in Nat PROVE f[n + 1] = OneMore(b, f[n])
  <2>1. n + 1 \in Nat /\ n + 1 # 0 /\ (n + 1) - 1 = n  OBVIOUS
  <2>2. f[n + 1] = [d \in Calls |-> [p \in Position |->
                         IF n + 1 = 0 THEN {} ELSE StepThen(b, f[(n + 1) - 1], d, p)]]
    BY <1>1, <2>1
  <2> QED BY <2>1, <2>2 DEF OneMore
<1> QED BY <1>2, <1>3 DEF f

LEMMA RunsType ==
  ASSUME NEW b \in Buffer, NEW n \in Nat
  PROVE  Runs(b)[n] \in Replay
<1> DEFINE Typed == {i \in Nat : Runs(b)[i] \in Replay}
<1>1. 0 \in Typed
  BY RunsByStep DEF NoRuns, Replay
<1>2. ASSUME NEW i \in Nat, i \in Typed PROVE i + 1 \in Typed
  <2>1. OneMore(b, Runs(b)[i]) \in Replay
    BY <1>2, StepType DEF OneMore, Replay
  <2> QED BY <2>1, RunsByStep
<1>3. n \in Typed
  <2> HIDE DEF Typed
  <2> QED BY <1>1, <1>2, SetInduction
<1> QED BY <1>3

LEMMA RunsFrom ==
  ASSUME NEW b \in Buffer, NEW n \in Nat, NEW d \in Calls, NEW p \in Position
  PROVE  Runs(b)[n][d][p] \in SUBSET Run
BY RunsType DEF Replay

LEMMA RunsStep ==
  ASSUME NEW b \in Buffer, NEW n \in Nat, NEW d \in Calls, NEW p \in Position
  PROVE  Runs(b)[n + 1][d][p] = StepThen(b, Runs(b)[n], d, p)
<1>1. Runs(b)[n + 1] = OneMore(b, Runs(b)[n])  BY RunsByStep
<1> DEFINE rest == Runs(b)[n]
<1> HIDE DEF rest
<1>2. OneMore(b, rest)[d][p] = StepThen(b, rest, d, p)  BY DEF OneMore
<1> QED BY <1>1, <1>2 DEF rest

(* A run of fewer steps is one of more. *)
LEMMA RunsBelow ==
  ASSUME NEW b \in Buffer, NEW n \in Nat
  PROVE  Below(Runs(b)[n], Runs(b)[n + 1])
<1> DEFINE Grown == {i \in Nat : Below(Runs(b)[i], Runs(b)[i + 1])}
<1>1. 0 \in Grown
  <2>1. Runs(b)[0] = NoRuns  BY RunsByStep
  <2>2. \A d \in Calls, p \in Position : Runs(b)[0][d][p] = {}  BY <2>1 DEF NoRuns
  <2> QED BY <2>2 DEF Below
<1>2. ASSUME NEW i \in Nat, i \in Grown PROVE i + 1 \in Grown
  <2>1. ASSUME NEW d \in Calls, NEW p \in Position
        PROVE  Runs(b)[i + 1][d][p] \subseteq Runs(b)[(i + 1) + 1][d][p]
    <3>1. Runs(b)[i + 1][d][p] = StepThen(b, Runs(b)[i], d, p)  BY RunsStep
    <3>2. Runs(b)[(i + 1) + 1][d][p] = StepThen(b, Runs(b)[i + 1], d, p)  BY RunsStep
    <3>3. StepThen(b, Runs(b)[i], d, p) \subseteq StepThen(b, Runs(b)[i + 1], d, p)
      BY <1>2, StepGrows
    <3> QED BY <3>1, <3>2, <3>3
  <2> QED BY <2>1 DEF Below
<1>3. n \in Grown
  <2> HIDE DEF Grown
  <2> QED BY <1>1, <1>2, SetInduction
<1> QED BY <1>3

LEMMA RunsGrow ==
  ASSUME NEW b \in Buffer, NEW n \in Nat, NEW d \in Calls, NEW p \in Position
  PROVE  Runs(b)[n][d][p] \subseteq Runs(b)[n + 1][d][p]
BY RunsBelow DEF Below

-----------------------------------------------------------------------------
(* Runs end to end *)
SoFar(seen) == [seen |-> seen, result |-> "OK"]

LEMMA SoFarType ==
  ASSUME NEW seen \in Seq(Command)
  PROVE  SoFar(seen) \in Run
BY DEF SoFar, Run, Result

LEMMA ConcatInTurn ==
  ASSUME NEW x \in Seq(Command), NEW y \in Seq(Command), NEW z \in Seq(Command)
  PROVE  (x \o y) \o z = x \o (y \o z)
OBVIOUS

LEMMA JoinedInTurn ==
  ASSUME NEW r \in Run, NEW s \in Run, NEW t \in Run
  PROVE  Joined(Joined(r, s), t) = Joined(r, Joined(s, t))
<1>1. r.seen \in Seq(Command) /\ s.seen \in Seq(Command) /\ t.seen \in Seq(Command)
  BY DEF Run
<1>2. (r.seen \o s.seen) \o t.seen = r.seen \o (s.seen \o t.seen)
  BY <1>1, ConcatInTurn
<1> QED BY <1>2 DEF Joined

LEMMA JoinedFollowing ==
  ASSUME NEW seen \in Seq(Command), NEW c \in Command, NEW r \in Run
  PROVE  Joined(SoFar(seen), [r EXCEPT !.seen = <<c>> \o @]) = Joined(SoFar(Append(seen, c)), r)
<1>1. r.seen \in Seq(Command) /\ <<c>> \in Seq(Command)
  BY DEF Run
<1>2. seen \o (<<c>> \o r.seen) = (seen \o <<c>>) \o r.seen
  BY <1>1, ConcatInTurn
<1>3. seen \o <<c>> = Append(seen, c)
  BY AppendIsConcat
<1>4. [r EXCEPT !.seen = <<c>> \o @] = [seen |-> <<c>> \o r.seen, result |-> r.result]
  BY Followed
<1> QED BY <1>2, <1>3, <1>4 DEF Joined, SoFar

LEMMA JoinedEnding ==
  ASSUME NEW seen \in Seq(Command), NEW r
  PROVE  Joined(SoFar(seen), [seen |-> <<>>, result |-> r]) = [seen |-> seen, result |-> r]
<1>1. seen \o <<>> = seen  BY ConcatEmptySeq
<1> QED BY <1>1 DEF Joined, SoFar

LEMMA JoinedToNothing ==
  ASSUME NEW r \in Run
  PROVE  Joined(SoFar(<<>>), r) = r
<1>1. r = [seen |-> r.seen, result |-> r.result] /\ r.seen \in Seq(Command)
  BY DEF Run
<1>2. <<>> \o r.seen = r.seen  BY <1>1, ConcatEmptySeq
<1> QED BY <1>1, <1>2 DEF Joined, SoFar

-----------------------------------------------------------------------------
(* A walk under way is a replay under way: however the open lists go on in  *)
(* m more steps, the whole is a run of the stream.  good[k] has what the    *)
(* walk may have come to when the list open at level k ends.               *)
Whole(b, n) == Runs(b)[n][MaxDepth][Top(Stream)]

Finishes(b, stack, n, m, good) ==
  /\ good \in [0 .. Len(stack) -> SUBSET Run]
  /\ good[0] \subseteq Whole(b, n + m)
  /\ \A k \in 0 .. Len(stack) : \A r \in good[k] : r.result # "OK" => r \in Whole(b, n + m)
  /\ \A k \in 1 .. Len(stack) : \A r \in good[k] : r.result = "OK" =>
       \A s \in Runs(b)[m][MaxDepth - (k - 1)][stack[k]] : Joined(r, s) \in good[k - 1]

Reaches(b, p, d, seen, m, ends) ==
  \A s \in Runs(b)[m][d][p] : Joined(SoFar(seen), s) \in ends

GoesOn(b, p, stack, seen, n) ==
  \A m \in Nat : \E good :
    /\ Finishes(b, stack, n, m, good)
    /\ Reaches(b, p, MaxDepth - Len(stack), seen, m, good[Len(stack)])

LEMMA StartsFromTop ==
  ASSUME NEW b \in Buffer
  PROVE  GoesOn(b, Top(Stream), <<>>, <<>>, 0)
<1> SUFFICES ASSUME NEW m \in Nat
             PROVE \E good : /\ Finishes(b, <<>>, 0, m, good)
                             /\ Reaches(b, Top(Stream), MaxDepth - Len(<<>>), <<>>, m,
                                        good[Len(<<>>)])
  BY DEF GoesOn
<1> DEFINE good == [k \in 0 .. 0 |-> Whole(b, m)]
<1>1. Top(Stream) \in Position /\ MaxDepth \in Calls
  BY TopType, LimitsAssumption DEF Calls
<1>2. Whole(b, m) \in SUBSET Run
  BY <1>1, RunsFrom DEF Whole
<1>3. good \in [0 .. 0 -> SUBSET Run] /\ good[0] = Whole(b, m)
  BY <1>2
<1> HIDE DEF good
<1>4. Len(<<>>) = 0 /\ MaxDepth - 0 = MaxDepth /\ 0 + m = m /\ 1 .. 0 = {}
  BY LimitsAssumption
<1>5. Finishes(b, <<>>, 0, m, good)
  <2>1. \A k \in 0 .. 0 : \A r \in good[k] : r \in Whole(b, m)  BY <1>3
  <2> QED BY <1>3, <1>4, <2>1 DEF Finishes
<1>6. Reaches(b, Top(Stream), MaxDepth, <<>>, m, good[0])
  <2>1. ASSUME NEW s \in Whole(b, m) PROVE Joined(SoFar(<<>>), s) \in Whole(b, m)
    BY <1>2, <2>1, JoinedToNothing
  <2> QED BY <1>3, <2>1 DEF Reaches, Whole
<1> QED BY <1>4, <1>5, <1>6

(* A step less is left, and a step more is taken. *)
LEMMA FinishesBefore ==
  ASSUME NEW b \in Buffer, NEW stack \in Seq(Position), Len(stack) <= MaxDepth,
         NEW n \in Nat, NEW m \in Nat, NEW good, Finishes(b, stack, n, m + 1, good)
  PROVE  Finishes(b, stack, n + 1, m, good)
<1>1. (n + 1) + m = n + (m + 1)  OBVIOUS
<1>2. ASSUME NEW k \in 1 .. Len(stack), NEW r \in good[k], r.result = "OK",
             NEW s \in Runs(b)[m][MaxDepth - (k - 1)][stack[k]]
      PROVE  Joined(r, s) \in good[k - 1]
  <2>1. MaxDepth - (k - 1) \in Calls /\ stack[k] \in Position
    BY LimitsAssumption DEF Calls
  <2>2. s \in Runs(b)[m + 1][MaxDepth - (k - 1)][stack[k]]
    BY <2>1, RunsGrow
  <2> QED BY <1>2, <2>2 DEF Finishes
<1>3. /\ good \in [0 .. Len(stack) -> SUBSET Run]
      /\ good[0] \subseteq Whole(b, n + (m + 1))
      /\ \A k \in 0 .. Len(stack) : \A r \in good[k] :
           r.result # "OK" => r \in Whole(b, n + (m + 1))
  BY DEF Finishes
<1> QED BY <1>1, <1>2, <1>3 DEF Finishes

(* A turn that leaves the stack alone. *)
StepsTo(b, p, d, seen, q, more) ==
  \A m \in Nat : \A s \in Runs(b)[m][d][q] :
    \E r \in Runs(b)[m + 1][d][p] : Joined(SoFar(seen), r) = Joined(SoFar(more), s)

LEMMA GoesAhead ==
  ASSUME NEW b \in Buffer, NEW p \in Position, NEW stack \in Seq(Position), Len(stack) <= MaxDepth,
         NEW seen, NEW n \in Nat, GoesOn(b, p, stack, seen, n),
         NEW q, NEW more, StepsTo(b, p, MaxDepth - Len(stack), seen, q, more)
  PROVE  GoesOn(b, q, stack, more, n + 1)
<1> SUFFICES ASSUME NEW m \in Nat
             PROVE \E good : /\ Finishes(b, stack, n + 1, m, good)
                             /\ Reaches(b, q, MaxDepth - Len(stack), more, m, good[Len(stack)])
  BY DEF GoesOn
<1>1. PICK good : /\ Finishes(b, stack, n, m + 1, good)
                  /\ Reaches(b, p, MaxDepth - Len(stack), seen, m + 1, good[Len(stack)])
  BY DEF GoesOn
<1>2. Finishes(b, stack, n + 1, m, good)
  BY <1>1, FinishesBefore
<1>3. Reaches(b, q, MaxDepth - Len(stack), more, m, good[Len(stack)])
  BY <1>1 DEF Reaches, StepsTo
<1> QED BY <1>2, <1>3

(* Commands the visitor sees: the walk goes on at q. *)
LEMMA GoesOnVisited ==
  ASSUME NEW b \in Buffer, NEW p \in Position, NEW stack \in Seq(Position), Len(stack) <= MaxDepth,
         NEW seen \in Seq(Command), NEW n \in Nat, GoesOn(b, p, stack, seen, n),
         NEW c \in Command, c = Fetch(b, p), NEW q \in Position,
         \/ c.op = "visit" /\ q = After(p)
         \/ c.op = "branch" /\ c.arg # Null /\ q \in {After(p), Top(c.arg)}
  PROVE  GoesOn(b, q, stack, Append(seen, c), n + 1)
<1>1. MaxDepth - Len(stack) \in Calls
  BY LimitsAssumption DEF Calls
<1>2. ASSUME NEW m \in Nat, NEW s \in Runs(b)[m][MaxDepth - Len(stack)][q]
      PROVE  \E r \in Runs(b)[m + 1][MaxDepth - Len(stack)][p] :
               Joined(SoFar(seen), r) = Joined(SoFar(Append(seen, c)), s)
  <2> DEFINE d == MaxDepth - Len(stack)
             r == [s EXCEPT !.seen = <<c>> \o @]
  <2>1. s \in Run
    BY <1>1, <1>2, RunsFrom
  <2>2. Runs(b)[m + 1][d][p] = StepThen(b, Runs(b)[m], d, p)
    BY <1>1, RunsStep
  <2>3. \E rs : s \in rs /\ StepThen(b, Runs(b)[m], d, p) = Following(c, rs)
    <3>1. CASE c.op = "visit" /\ q = After(p)
      BY <1>2, <3>1, StepVisit
    <3>2. CASE c.op = "branch" /\ c.arg # Null /\ q \in {After(p), Top(c.arg)}
      <4>1. s \in Runs(b)[m][d][After(p)] \cup Runs(b)[m][d][Top(c.arg)]
        BY <1>2, <3>2
      <4>2. c.op = "branch" /\ c.arg # Null  BY <3>2
      <4>3. StepThen(b, Runs(b)[m], d, p)
            = Following(c, Runs(b)[m][d][After(p)] \cup Runs(b)[m][d][Top(c.arg)])
        BY <4>2, StepBranch
      <4> QED BY <4>1, <4>3
    <3> QED BY <3>1, <3>2
  <2>4. r \in StepThen(b, Runs(b)[m], d, p)
    BY <2>3 DEF Following
  <2>5. Joined(SoFar(seen), r) = Joined(SoFar(Append(seen, c)), s)
    BY <2>1, JoinedFollowing
  <2> QED BY <2>2, <2>4, <2>5
<1>3. StepsTo(b, p, MaxDepth - Len(stack), seen, q, Append(seen, c))
  BY <1>2 DEF StepsTo
<1> QED BY <1>3, GoesAhead

(* A list that ends gives the walk back to the one that called it. *)
LEMMA GoesOnReturned ==
  ASSUME NEW b \in Buffer, NEW p \in Position, NEW stack \in Seq(Position), Len(stack) <= MaxDepth,
         NEW seen \in Seq(Command), NEW n \in Nat, GoesOn(b, p, stack, seen, n),
         Leaving(Fetch(b, p)), stack # <<>>
  PROVE  GoesOn(b, stack[Len(stack)], SubSeq(stack, 1, Len(stack) - 1), seen, n + 1)
<1> DEFINE top == Len(stack)
           rest == SubSeq(stack, 1, Len(stack) - 1)
<1>1. top \in Nat /\ top >= 1 /\ MaxDepth - top \in Calls /\ MaxDepth - (top - 1) \in Calls
      /\ stack[top] \in Position
  BY LimitsAssumption DEF Calls
<1>2. Len(rest) = top - 1 /\ \A k \in 1 .. top - 1 : rest[k] = stack[k]
  BY <1>1, FrontOf
<1> SUFFICES ASSUME NEW m \in Nat
             PROVE \E good : /\ Finishes(b, rest, n + 1, m, good)
                             /\ Reaches(b, stack[top], MaxDepth - (top - 1), seen, m, good[top - 1])
  BY <1>2 DEF GoesOn
<1>3. PICK good : /\ Finishes(b, stack, n, m + 1, good)
                  /\ Reaches(b, p, MaxDepth - top, seen, m + 1, good[top])
  BY DEF GoesOn
<1>4. Finishes(b, stack, n + 1, m, good)
  BY <1>3, FinishesBefore
<1> DEFINE left == [k \in 0 .. top - 1 |-> good[k]]
<1> HIDE DEF rest, top
<1>5. Finishes(b, rest, n + 1, m, left)
  <2>1. /\ good \in [0 .. top -> SUBSET Run]
        /\ good[0] \subseteq Whole(b, n + 1 + m)
        /\ \A k \in 0 .. top : \A r \in good[k] : r.result # "OK" => r \in Whole(b, n + 1 + m)
        /\ \A k \in 1 .. top : \A r \in good[k] : r.result = "OK" =>
             \A s \in Runs(b)[m][MaxDepth - (k - 1)][stack[k]] : Joined(r, s) \in good[k - 1]
    BY <1>4 DEF Finishes, top
  <2>2. left \in [0 .. top - 1 -> SUBSET Run]
    BY <1>1, <2>1
  <2>3. \A k \in 0 .. top - 1 : left[k] = good[k] /\ k \in 0 .. top
    BY <1>1
  <2> HIDE DEF left
  <2>4. left[0] \subseteq Whole(b, n + 1 + m)
    BY <1>1, <2>1, <2>3
  <2>5. \A k \in 0 .. top - 1 : \A r \in left[k] : r.result # "OK" => r \in Whole(b, n + 1 + m)
    BY <2>1, <2>3
  <2>6. ASSUME NEW k \in 1 .. top - 1
        PROVE  \A r \in left[k] : r.result = "OK" =>
                 \A s \in Runs(b)[m][MaxDepth - (k - 1)][rest[k]] : Joined(r, s) \in left[k - 1]
    <3>1. k \in 1 .. top /\ k \in 0 .. top - 1 /\ k - 1 \in 0 .. top - 1
      BY <1>1
    <3> QED BY <1>2, <2>1, <2>3, <3>1
  <2> QED BY <1>2, <2>2, <2>4, <2>5, <2>6 DEF Finishes
<1>6. SoFar(seen) \in good[top]
  <2> DEFINE r == [seen |-> <<>>, result |-> "OK"]
  <2>1. Runs(b)[m + 1][MaxDepth - top][p] = Ending("OK")
    <3>1. Runs(b)[m + 1][MaxDepth - top][p] = StepThen(b, Runs(b)[m], MaxDepth - top, p)
      BY <1>1, RunsStep
    <3> QED BY <3>1, StepLeaving
  <2>2. r \in Ending("OK")
    BY DEF Ending
  <2>3. Joined(SoFar(seen), r) \in good[top]
    BY <1>3, <2>1, <2>2 DEF Reaches
  <2> QED BY <2>3, JoinedEnding DEF SoFar
<1>7. Reaches(b, stack[top], MaxDepth - (top - 1), seen, m, left[top - 1])
  <2>1. \A r \in good[top] : r.result = "OK" =>
          \A s \in Runs(b)[m][MaxDepth - (top - 1)][stack[top]] : Joined(r, s) \in good[top - 1]
    BY <1>1, <1>4 DEF Finishes, top
  <2>2. SoFar(seen).result = "OK"  BY DEF SoFar
  <2>3. left[top - 1] = good[top - 1]  BY <1>1
  <2> QED BY <1>6, <2>1, <2>2, <2>3 DEF Reaches
<1> QED BY <1>5, <1>7

(* A call: what the called list comes to is the walk's if it fails, and     *)
(* otherwise what the caller goes on from.                                 *)
LEMMA ResumingHas ==
  ASSUME NEW rs, NEW ss
  PROVE  /\ \A r \in rs : r.result # "OK" => r \in Resuming(rs, ss)
         /\ \A r \in rs, s \in ss : r.result = "OK" => Joined(r, s) \in Resuming(rs, ss)
BY DEF Resuming

LEMMA CallRuns ==
  ASSUME NEW b \in Buffer, NEW p \in Position, NEW d \in Calls, d # 0, NEW m \in Nat,
         Fetch(b, p).op = "call", Fetch(b, p).arg # Null
  PROVE  Runs(b)[m + 1][d][p] =
           Resuming(Runs(b)[m][d - 1][Top(Fetch(b, p).arg)], Runs(b)[m][d][After(p)])
<1>1. Runs(b)[m + 1][d][p] = StepThen(b, Runs(b)[m], d, p)
  BY RunsStep
<1> QED BY <1>1, StepCall

LEMMA GoesOnCalled ==
  ASSUME NEW b \in Buffer, NEW p \in Position, NEW stack \in Seq(Position), Len(stack) < MaxDepth,
         NEW seen \in Seq(Command), NEW n \in Nat, GoesOn(b, p, stack, seen, n),
         NEW l \in List, l # Null, Fetch(b, p).op = "call", Fetch(b, p).arg = l
  PROVE  GoesOn(b, Top(l), Append(stack, After(p)), seen, n + 1)
<1> DEFINE top == Len(stack)
           d == MaxDepth - top
           pushed == Append(stack, After(p))
<1>1. top \in Nat /\ top + 1 \in Nat /\ d \in Calls /\ d # 0 /\ d - 1 \in Calls
      /\ MaxDepth - (top + 1) = d - 1
  BY LimitsAssumption DEF Calls
<1>2. /\ Len(pushed) = top + 1 /\ pushed[top + 1] = After(p)
      /\ \A k \in 1 .. top : pushed[k] = stack[k]
  OBVIOUS
<1>3. After(p) \in Position /\ Top(l) \in Position
  BY AfterType, TopType
<1> SUFFICES ASSUME NEW m \in Nat
             PROVE \E good : /\ Finishes(b, pushed, n + 1, m, good)
                             /\ Reaches(b, Top(l), d - 1, seen, m, good[top + 1])
  BY <1>1, <1>2 DEF GoesOn
<1>4. PICK good : /\ Finishes(b, stack, n, m + 1, good)
                  /\ Reaches(b, p, d, seen, m + 1, good[top])
  BY DEF GoesOn
<1>5. Finishes(b, stack, n + 1, m, good)
  <2>1. Len(stack) <= MaxDepth  BY LimitsAssumption
  <2> QED BY <1>4, <2>1, FinishesBefore
<1> DEFINE fine(r) == /\ r.result # "OK" => r \in Whole(b, n + 1 + m)
                      /\ r.result = "OK" => \A s \in Runs(b)[m][d][After(p)] :
                                              Joined(r, s) \in good[top]
           called == {r \in Run : fine(r)}
           more == [k \in 0 .. top + 1 |-> IF k = top + 1 THEN called ELSE good[k]]
<1>6. /\ good \in [0 .. top -> SUBSET Run]
      /\ good[0] \subseteq Whole(b, n + 1 + m)
      /\ \A k \in 0 .. top : \A r \in good[k] : r.result # "OK" => r \in Whole(b, n + 1 + m)
      /\ \A k \in 1 .. top : \A r \in good[k] : r.result = "OK" =>
           \A s \in Runs(b)[m][MaxDepth - (k - 1)][stack[k]] : Joined(r, s) \in good[k - 1]
  BY <1>5 DEF Finishes
<1>7. called \in SUBSET Run
  OBVIOUS
<1>8. \A r \in called : fine(r)
  OBVIOUS
<1>9. \A r \in Run : fine(r) => r \in called
  OBVIOUS
<1> HIDE DEF called
<1>10. /\ more \in [0 .. top + 1 -> SUBSET Run]
       /\ more[top + 1] = called
       /\ \A k \in 0 .. top : more[k] = good[k]
  BY <1>1, <1>6, <1>7
<1> HIDE DEF more, pushed, top, d
<1>11. Finishes(b, pushed, n + 1, m, more)
  <2>1. more[0] \subseteq Whole(b, n + 1 + m)
    BY <1>1, <1>6, <1>10
  <2>2. ASSUME NEW k \in 0 .. top + 1, NEW r \in more[k], r.result # "OK"
        PROVE  r \in Whole(b, n + 1 + m)
    <3>1. CASE k = top + 1  BY <1>8, <1>10, <2>2, <3>1
    <3>2. CASE k # top + 1
      <4>1. k \in 0 .. top  BY <1>1, <3>2
      <4> QED BY <1>6, <1>10, <2>2, <4>1
    <3> QED BY <3>1, <3>2
  <2>3. ASSUME NEW k \in 1 .. top + 1, NEW r \in more[k], r.result = "OK",
               NEW s \in Runs(b)[m][MaxDepth - (k - 1)][pushed[k]]
        PROVE  Joined(r, s) \in more[k - 1]
    <3>1. CASE k = top + 1
      <4>1. k - 1 = top /\ top \in 0 .. top /\ MaxDepth - (k - 1) = d
        BY <1>1, <3>1 DEF d
      <4> QED BY <1>2, <1>8, <1>10, <2>3, <3>1, <4>1
    <3>2. CASE k # top + 1
      <4>1. k \in 1 .. top /\ k \in 0 .. top /\ k - 1 \in 0 .. top  BY <1>1, <3>2
      <4> QED BY <1>2, <1>6, <1>10, <2>3, <4>1
    <3> QED BY <3>1, <3>2
  <2> QED BY <1>2, <1>10, <2>1, <2>2, <2>3 DEF Finishes
<1>12. ASSUME NEW s \in Runs(b)[m][d - 1][Top(l)]
       PROVE  Joined(SoFar(seen), s) \in called
  <2> DEFINE r == Joined(SoFar(seen), s)
  <2>1. s \in Run  BY <1>1, <1>3, <1>12, RunsFrom
  <2>2. r \in Run /\ SoFar(seen) \in Run /\ r.result = s.result
    BY <2>1, SoFarType, JoinedType DEF Joined
  <2>3. Runs(b)[m + 1][d][p] = Resuming(Runs(b)[m][d - 1][Top(l)], Runs(b)[m][d][After(p)])
    BY <1>1, CallRuns
  <2>4. CASE s.result # "OK"
    <3>1. s \in Runs(b)[m + 1][d][p]  BY <1>12, <2>3, <2>4, ResumingHas
    <3>2. r \in good[top]  BY <1>4, <3>1 DEF Reaches
    <3>3. r \in Whole(b, n + 1 + m)  BY <1>1, <1>6, <2>2, <2>4, <3>2
    <3> HIDE DEF r
    <3> QED BY <1>9, <2>2, <2>4, <3>3 DEF r
  <2>5. CASE s.result = "OK"
    <3>1. ASSUME NEW t \in Runs(b)[m][d][After(p)]
          PROVE  Joined(r, t) \in good[top]
      <4>1. t \in Run  BY <1>1, <1>3, <3>1, RunsFrom
      <4>2. Joined(s, t) \in Runs(b)[m + 1][d][p]  BY <1>12, <2>3, <2>5, <3>1, ResumingHas
      <4>3. Joined(SoFar(seen), Joined(s, t)) \in good[top]  BY <1>4, <4>2 DEF Reaches
      <4> QED BY <2>1, <2>2, <4>1, <4>3, JoinedInTurn
    <3> HIDE DEF r
    <3> QED BY <1>9, <2>2, <2>5, <3>1 DEF r
  <2> QED BY <2>4, <2>5
<1>13. Reaches(b, Top(l), d - 1, seen, m, more[top + 1])
  BY <1>10, <1>12 DEF Reaches
<1> QED BY <1>11, <1>13

(* Where the walk stops, it has been a run of the stream. *)
LEMMA StopsInPlace ==
  ASSUME NEW b \in Buffer, NEW p \in Position, NEW stack \in Seq(Position), Len(stack) <= MaxDepth,
         NEW seen \in Seq(Command), NEW n \in Nat, GoesOn(b, p, stack, seen, n),
         NEW r \in Result, r # "OK" \/ stack = <<>>,
         Runs(b)[1][MaxDepth - Len(stack)][p] = Ending(r)
  PROVE  [seen |-> seen, result |-> r] \in Whole(b, n + 1)
<1>1. PICK good : /\ Finishes(b, stack, n, 1, good)
                  /\ Reaches(b, p, MaxDepth - Len(stack), seen, 1, good[Len(stack)])
  BY DEF GoesOn
<1>2. Joined(SoFar(seen), [seen |-> <<>>, result |-> r]) \in good[Len(stack)]
  BY <1>1 DEF Reaches, Ending
<1>3. [seen |-> seen, result |-> r] \in good[Len(stack)]
  BY <1>2, JoinedEnding
<1>4. CASE r # "OK"
  <2>1. Len(stack) \in 0 .. Len(stack)  OBVIOUS
  <2>2. [seen |-> seen, result |-> r].result # "OK"  BY <1>4
  <2> QED BY <1>1, <1>3, <2>1, <2>2 DEF Finishes
<1>5. CASE stack = <<>>
  BY <1>1, <1>3, <1>5 DEF Finishes
<1> QED BY <1>4, <1>5

-----------------------------------------------------------------------------
(* The inductive invariant of the replay. *)
Replaying ==
  /\ phase = "record" => result = "none" /\ visited = <<>> /\ turns = 0
  /\ phase = "walk" => result = "none" /\ GoesOn(buf, pc, ret_stack, visited, turns)
  /\ ReplaysInPlace

LEMMA StopKeeps ==
  ASSUME TypeOK, Replaying, phase = "walk", NEW r \in Result,
         r # "OK" \/ ret_stack = <<>>, Stop(r),
         StepThen(buf, Runs(buf)[0], MaxDepth - Len(ret_stack), pc) = Ending(r)
  PROVE  Replaying'
<1>1. buf \in Buffer  BY DEF TypeOK, Buffer
<1>2. pc \in Position /\ ret_stack \in Seq(Position) /\ Len(ret_stack) <= MaxDepth
      /\ visited \in Seq(Command) /\ turns \in Nat /\ MaxDepth - Len(ret_stack) \in Calls
  BY LimitsAssumption DEF TypeOK, Calls
<1>3. GoesOn(buf, pc, ret_stack, visited, turns)  BY DEF Replaying
<1>4. Runs(buf)[0 + 1][MaxDepth - Len(ret_stack)][pc] = Ending(r)
  BY <1>1, <1>2, RunsStep
<1>5. [seen |-> visited, result |-> r] \in Whole(buf, turns + 1)
  BY <1>1, <1>2, <1>3, <1>4, StopsInPlace
<1>6. phase' = "idle" /\ result' = r /\ turns' = turns + 1 /\ buf' = buf /\ visited' = visited
  BY DEF Stop, cb
<1>7. ReplaysInPlace'
  BY <1>5, <1>6 DEF ReplaysInPlace, Whole
<1> QED BY <1>6, <1>7 DEF Replaying

LEMMA JumpKeeps ==
  ASSUME TypeOK, Replaying, phase = "walk", NEW p, NEW stack, Jump(p, stack),
         GoesOn(buf, p, stack, visited', turns + 1)
  PROVE  Replaying'
<1>1. /\ phase' = "walk" /\ result' = result /\ result = "none" /\ turns' = turns + 1
      /\ buf' = buf /\ pc' = p /\ ret_stack' = stack
  BY DEF Jump, cb, Replaying
<1>2. GoesOn(buf', pc', ret_stack', visited', turns')
  BY <1>1
<1> QED BY <1>1, <1>2 DEF Replaying, ReplaysInPlace

LEMMA ReplayStep == TypeOK /\ TypeOK' /\ Replaying /\ [Next]_vars => Replaying'
<1> SUFFICES ASSUME TypeOK, TypeOK', Replaying, [Next]_vars PROVE Replaying'
  OBVIOUS
<1> DEFINE c == Fetch(buf, pc)
           d == MaxDepth - Len(ret_stack)
           rest == Runs(buf)[0]
<1>0. /\ buf \in Buffer /\ pc \in Position /\ ret_stack \in Seq(Position)
      /\ Len(ret_stack) <= MaxDepth /\ visited \in Seq(Command) /\ turns \in Nat
  BY DEF TypeOK, Buffer
<1>1. phase = "walk" => GoesOn(buf, pc, ret_stack, visited, turns)
  BY DEF Replaying
<1>2. CASE Reset
  BY <1>2 DEF Reset, Replaying, ReplaysInPlace
<1>3. ASSUME NEW e \in Recorded, Record(e) PROVE Replaying'
  BY <1>3 DEF Record, walk, Replaying, ReplaysInPlace
<1>4. CASE Submit
  <2>1. /\ phase' = "walk" /\ pc' = Top(Stream) /\ ret_stack' = <<>>
        /\ result' = "none" /\ visited' = <<>> /\ turns' = 0
    BY <1>4 DEF Submit, Replaying, Top
  <2>2. buf' \in Buffer  BY DEF TypeOK, Buffer
  <2>3. GoesOn(buf', Top(Stream), <<>>, <<>>, 0)  BY <2>2, StartsFromTop
  <2>4. GoesOn(buf', pc', ret_stack', visited', turns')  BY <2>1, <2>3
  <2> QED BY <2>1, <2>4 DEF Replaying, ReplaysInPlace
<1>5. CASE CallList
  <2>1. phase = "walk" /\ c.op = "call"
    BY <1>5 DEF CallList, Walking, Here
  <2>2. CASE c.arg = Null /\ Stop("EINVAL")
    <3>1. StepThen(buf, rest, d, pc) = Ending("EINVAL")
      BY <2>1, <2>2, StepInvalid DEF Control
    <3> QED BY <2>1, <2>2, <3>1, StopKeeps DEF Result
  <2>3. CASE c.arg # Null /\ Len(ret_stack) >= MaxDepth /\ Stop("EOVERFLOW")
    <3>1. d = 0  BY <1>0, <2>3, LimitsAssumption
    <3>2. StepThen(buf, rest, d, pc) = Ending("EOVERFLOW")
      BY <2>1, <2>3, <3>1, StepTooDeep
    <3> QED BY <2>1, <2>3, <3>2, StopKeeps DEF Result
  <2>4. CASE /\ c.arg # Null /\ Len(ret_stack) < MaxDepth
             /\ Jump(Top(c.arg), Append(ret_stack, After(pc))) /\ UNCHANGED visited
    <3>1. c.arg \in List  BY <1>0, <2>1, <2>4, FetchedType DEF Control
    <3>2. GoesOn(buf, Top(c.arg), Append(ret_stack, After(pc)), visited, turns + 1)
      BY <1>0, <1>1, <2>1, <2>4, <3>1, GoesOnCalled
    <3> QED BY <2>1, <2>4, <3>2, JumpKeeps
  <2> QED BY <1>5, <2>2, <2>3, <2>4 DEF CallList, Here
<1>6. CASE BranchLessZ
  <2>1. phase = "walk" /\ c.op = "branch"
    BY <1>6 DEF BranchLessZ, Walking, Here
  <2>2. CASE c.arg = Null /\ Stop("EINVAL")
    <3>1. StepThen(buf, rest, d, pc) = Ending("EINVAL")
      BY <2>1, <2>2, StepInvalid DEF Control
    <3> QED BY <2>1, <2>2, <3>1, StopKeeps DEF Result
  <2>3. ASSUME c.arg # Null, visited' = Append(visited, c),
               NEW q \in {After(pc), Top(c.arg)}, Jump(q, ret_stack)
        PROVE  Replaying'
    <3>1. c.arg \in List /\ c \in Command
      BY <1>0, <2>1, <2>3, FetchedType DEF Control, OffTheEnd
    <3>2. q \in Position  BY <1>0, <3>1, AfterType, TopType
    <3>3. GoesOn(buf, q, ret_stack, Append(visited, c), turns + 1)
      BY <1>0, <1>1, <2>1, <2>3, <3>1, <3>2, GoesOnVisited
    <3> QED BY <2>1, <2>3, <3>3, JumpKeeps
  <2> QED BY <1>6, <2>2, <2>3 DEF BranchLessZ, Here
<1>7. CASE Leave
  <2>1. phase = "walk" /\ Leaving(c)
    BY <1>7 DEF Leave, Walking, Here, Leaving
  <2>2. CASE ret_stack = <<>> /\ Stop("OK")
    <3>1. StepThen(buf, rest, d, pc) = Ending("OK")
      BY <2>1, StepLeaving
    <3> QED BY <2>1, <2>2, <3>1, StopKeeps DEF Result
  <2>3. CASE /\ ret_stack # <<>>
             /\ Jump(ret_stack[Len(ret_stack)], SubSeq(ret_stack, 1, Len(ret_stack) - 1))
             /\ UNCHANGED visited
    <3>1. GoesOn(buf, ret_stack[Len(ret_stack)], SubSeq(ret_stack, 1, Len(ret_stack) - 1),
                 visited, turns + 1)
      BY <1>0, <1>1, <2>1, <2>3, GoesOnReturned
    <3> QED BY <2>1, <2>3, <3>1, JumpKeeps
  <2> QED BY <1>7, <2>2, <2>3 DEF Leave
<1>8. CASE Visit
  <2>1. /\ phase = "walk" /\ c.op = "visit"
        /\ visited' = Append(visited, c) /\ Jump(After(pc), ret_stack)
    BY <1>8 DEF Visit, Walking, Here
  <2>2. c \in Command  BY <1>0, <2>1, FetchedType DEF OffTheEnd
  <2>3. GoesOn(buf, After(pc), ret_stack, Append(visited, c), turns + 1)
    BY <1>0, <1>1, <2>1, <2>2, AfterType, GoesOnVisited
  <2> QED BY <2>1, <2>3, JumpKeeps
<1>9. CASE RunOff
  <2>1. phase = "walk" /\ c.op = "off" /\ Stop("lost")
    BY <1>9 DEF RunOff, Walking, Here
  <2>2. StepThen(buf, rest, d, pc) = Ending("lost")
    BY <2>1, StepOff
  <2> QED BY <2>1, <2>2, StopKeeps DEF Result
<1>10. CASE UNCHANGED vars
  BY <1>10 DEF vars, cb, walk, Replaying, ReplaysInPlace
<1> QED
  BY <1>2, <1>3, <1>4, <1>5, <1>6, <1>7, <1>8, <1>9, <1>10 DEF Next, Walk

(* While a walk is under way the rest of every run of the open lists makes  *)
(* it a run of the stream; once it has returned, it is one.                *)
THEOREM ReplayInductive == Spec => []Replaying
<1>1. Init => Replaying
  BY DEF Init, Replaying, ReplaysInPlace
<1> QED BY <1>1, TypeInit, TypeStep, ReplayStep, PTL DEF Spec

(* cb_walk on its bounded stack is the recursive replay: calls in place,    *)
(* branches instead of the rest of a list, and the error that ended it.    *)
THEOREM WalkIsReplay == Spec => []ReplaysInPlace
<1>1. Replaying => ReplaysInPlace
  BY DEF Replaying
<1> QED BY <1>1, ReplayInductive, PTL
=============================================================================
