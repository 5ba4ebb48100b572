------------------------- MODULE SignatureParserProofs -------------------------
(***************************************************************************)
(* SignatureParser for every blob length, every byte and every recursion   *)
(* limit.  A step of the parser replaces the innermost goal by the goals of*)
(* the call it enters.  What the invariants ask of such a step is stated   *)
(* once (Replaces), shown of every action, and shown to be enough.         *)
(***************************************************************************)
EXTENDS SignatureParser, SequenceTheorems, FiniteSetTheorems, TLAPS

-------------------------------------------------------------------------------
(* Goals and what they do                                                  *)

Plain == {"type", "method", "method_byte", "unpin", "instance", "uint", "token", "rank",
          "byref", "pin", "not_pinned", "local"}

Types == {None, "Void", "Pinned", "Modified", "MethodSig", "VarArgSig", "other"}
LoopRecords ==
  [goal : {"each"}, item : DOMAIN ItemGoals, count : Nat, at : Nat, done : Nat, extra : Nat,
   past_sentinel : BOOLEAN]

(* The items behind a sentinel are parameters, some of those begun, and at *)
(* least one.                                                              *)
Split(loop) ==
  /\ loop.past_sentinel => loop.item = "param"
  /\ loop.past_sentinel <=> loop.extra > 0
  /\ loop.extra <= loop.done /\ loop.done <= loop.count

Loop == {loop \in LoopRecords : Split(loop)}
CountGoal ==
  [goal : {"count"}, before : {<< >>, param("return")}, item : DOMAIN ItemGoals]

(* The goals of a blob of so many bytes.                                   *)
GoalsUpTo(length) ==
  [goal : Plain] \cup [goal : {"mods", "inner"}, mods : Nat] \cup [goal : {"leave"}, made : Types]
  \cup [goal : {"convention"}, of : Nat] \cup [goal : {"reject"}, at : 0..length]
  \cup [goal : {"built"}, role : {"return", "index", "parameter"}] \cup CountGoal \cup Loop

(* A goal of a call that has not returned: it holds one frame.             *)
FrameGoals == {"leave", "inner", "method_byte"}
(* A goal that is only reached by reading at least one byte.               *)
Eaters == {"type", "method", "method_byte", "inner", "uint", "token", "rank", "count",
           "convention", "instance", "local"}

FramesIn(s) == {i \in DOMAIN s : s[i].goal \in FrameGoals}
NoFrame(s) == \A i \in DOMAIN s : s[i].goal \notin FrameGoals
OneFrame(s) ==
  \E k \in DOMAIN s : s[k].goal \in FrameGoals /\ \A i \in DOMAIN s : i # k => s[i].goal \notin FrameGoals
Eats(s) == \E i \in DOMAIN s : s[i].goal \in Eaters
EatsBefore(s, i) == \E j \in 1..(i - 1) : s[j].goal \in Eaters
(* A PINNED type under way holds an unpin goal and, behind it, its frame.  *)
NoUnpin(s) == \A i \in DOMAIN s : s[i].goal # "unpin" /\ s[i] # Leave("Pinned")
OneUnpin(s) ==
  \E k \in DOMAIN s : s[k].goal = "unpin" /\ \A i \in DOMAIN s : i # k => s[i].goal # "unpin"

(* The bytes behind the count of a loop were enough for its items, and each*)
(* item took one, the one under way still may.                             *)
FedTo(s, p) ==
  \A i \in DOMAIN s :
    s[i].goal = "each" =>
      /\ s[i].count <= len - s[i].at
      /\ \/ s[i].at + s[i].done <= p
         \/ s[i].at + s[i].done <= p + 1 /\ EatsBefore(s, i)

-------------------------------------------------------------------------------
(* The goals of a kind                                                     *)

(* A loop has the fields of a loop.                                        *)
LEMMA LoopsTyped ==
  ASSUME NEW length \in Nat, NEW g \in GoalsUpTo(length), g.goal = "each"
  PROVE  g \in Loop
  BY DEF GoalsUpTo, Plain, CountGoal, Loop, LoopRecords

(* So has a leave goal, and each of the others that carry something.       *)
LEMMA LeaveTyped ==
  ASSUME NEW length \in Nat, NEW g \in GoalsUpTo(length), g.goal = "leave"
  PROVE  g.made \in Types
  BY DEF GoalsUpTo, Plain, CountGoal, Loop, LoopRecords

(* The modifiers are counted in mods and inner goals alike.                *)
LEMMA ModsTyped ==
  ASSUME NEW length \in Nat, NEW g \in GoalsUpTo(length), g.goal \in {"mods", "inner"}
  PROVE  g \in [goal : {"mods", "inner"}, mods : Nat]
  BY DEF GoalsUpTo, Plain, CountGoal, Loop, LoopRecords

(* A rejected convention is at an offset of the blob.                      *)
LEMMA RejectTyped ==
  ASSUME NEW length \in Nat, NEW g \in GoalsUpTo(length), g.goal = "reject"
  PROVE  g.at \in 0..length
  BY DEF GoalsUpTo, Plain, CountGoal, Loop, LoopRecords

(* What comes before counted items is nothing or the return type.          *)
LEMMA CountTyped ==
  ASSUME NEW length \in Nat, NEW g \in GoalsUpTo(length), g.goal = "count"
  PROVE  g \in CountGoal
  BY DEF GoalsUpTo, Plain, CountGoal, Loop, LoopRecords

(* Every goal is one the parser knows.                                     *)
LEMMA KnownGoals ==
  ASSUME NEW length \in Nat, NEW g \in GoalsUpTo(length)
  PROVE  g.goal \in Goals
  BY DEF GoalsUpTo, Plain, CountGoal, Loop, LoopRecords, Goals

(* Lengths and limits are natural numbers.                                 *)
LEMMA LimitsTyped ==
  /\ recursion_limit \in Nat
  /\ \A n \in Lengths : n \in Nat
  /\ \A b \in Bytes : b \in 0..255
  /\ \A t \in Tails : t \in Nat
  <1>1. TailSpace - 1 \in Int
    BY DEF TailSpace
  <1> QED BY <1>1, ParametersAssumption

(* What has one unpin goal does not have none.                             *)
LEMMA OneIsNotNone == ASSUME NEW s PROVE ~(OneUnpin(s) /\ NoUnpin(s))
  BY DEF OneUnpin, NoUnpin

-------------------------------------------------------------------------------
(* Counting frames                                                         *)

(* Numbering later does not change how many there are.                     *)
LEMMA Shifted ==
  ASSUME NEW T \in SUBSET Nat, IsFiniteSet(T), NEW n \in Nat
  PROVE  LET U == {n + i : i \in T}
         IN  IsFiniteSet(U) /\ Cardinality(U) = Cardinality(T)
  <1> DEFINE U == {n + i : i \in T}
             f == [i \in T |-> n + i]
  <1>1. f \in Bijection(T, U)
    <2>1. f \in [T -> U]
      OBVIOUS
    <2>2. \A i, j \in T : f[i] = f[j] => i = j
      OBVIOUS
    <2>3. \A u \in U : \E i \in T : f[i] = u
      OBVIOUS
    <2> QED BY <2>1, <2>2, <2>3 DEF Bijection, Injection, Surjection, IsInjective
  <1>2. ExistsBijection(T, U)
    BY <1>1 DEF ExistsBijection
  <1> QED BY <1>2, FS_Bijection

(* The frames of a sequence are finitely many.                             *)
LEMMA FramesFinite ==
  ASSUME NEW S, NEW s \in Seq(S)
  PROVE  FramesIn(s) \in SUBSET Nat /\ IsFiniteSet(FramesIn(s))
  <1>1. DOMAIN s = 1..Len(s) /\ Len(s) \in Nat
    OBVIOUS
  <1>2. IsFiniteSet(1..Len(s))
    BY <1>1, FS_Interval
  <1>3. FramesIn(s) \subseteq 1..Len(s)
    BY <1>1 DEF FramesIn
  <1> QED BY <1>1, <1>2, <1>3, FS_Subset

(* The frames of two sequences add up.                                     *)
LEMMA FramesAdd ==
  ASSUME NEW S, NEW s \in Seq(S), NEW t \in Seq(S)
  PROVE  Cardinality(FramesIn(s \o t)) = Cardinality(FramesIn(s)) + Cardinality(FramesIn(t))
  <1> DEFINE n == Len(s)
             A == FramesIn(s)
             B == {n + i : i \in FramesIn(t)}
  <1>1. /\ n \in Nat /\ Len(t) \in Nat /\ DOMAIN s = 1..n /\ DOMAIN t = 1..Len(t)
        /\ DOMAIN (s \o t) = 1..(n + Len(t))
        /\ \A i \in 1..n : (s \o t)[i] = s[i]
        /\ \A i \in 1..Len(t) : (s \o t)[n + i] = t[i]
    BY ConcatProperties
  <1>2. FramesIn(s \o t) = A \cup B
    <2>1. ASSUME NEW i \in FramesIn(s \o t) PROVE i \in A \cup B
      <3>1. i \in 1..(n + Len(t)) /\ (s \o t)[i].goal \in FrameGoals
        BY <1>1 DEF FramesIn
      <3>2. CASE i <= n
        BY <1>1, <3>1, <3>2 DEF FramesIn
      <3>3. CASE i > n
        <4>1. i - n \in 1..Len(t) /\ i = n + (i - n)
          BY <1>1, <3>1, <3>3
        <4>2. i - n \in FramesIn(t)
          BY <1>1, <3>1, <4>1 DEF FramesIn
        <4> QED BY <4>1, <4>2
      <3> QED BY <1>1, <3>1, <3>2, <3>3
    <2>2. ASSUME NEW i \in A PROVE i \in FramesIn(s \o t)
      BY <1>1 DEF FramesIn
    <2>3. ASSUME NEW i \in FramesIn(t) PROVE n + i \in FramesIn(s \o t)
      BY <1>1 DEF FramesIn
    <2> QED BY <2>1, <2>2, <2>3
  <1>3. /\ A \in SUBSET Nat /\ IsFiniteSet(A)
        /\ FramesIn(t) \in SUBSET Nat /\ IsFiniteSet(FramesIn(t))
    BY FramesFinite
  <1>4. IsFiniteSet(B) /\ Cardinality(B) = Cardinality(FramesIn(t))
    BY <1>1, <1>3, Shifted
  <1>5. A \cap B = {}
    BY <1>1 DEF FramesIn
  <1>6. Cardinality(A \cap B) = 0
    BY <1>5, FS_EmptySet
  <1>7. Cardinality(A \cup B) = Cardinality(A) + Cardinality(B) - 0
    BY <1>3, <1>4, <1>6, FS_Union
  <1>8. Cardinality(A) \in Nat /\ Cardinality(B) \in Nat
    BY <1>3, <1>4, FS_CardinalityType
  <1> HIDE DEF A, B
  <1>9. Cardinality(A \cup B) = Cardinality(A) + Cardinality(B)
    BY <1>7, <1>8
  <1> QED BY <1>2, <1>4, <1>9 DEF A

(* A sequence without frames has none, one with one frame has one.         *)
LEMMA FramesCounted ==
  ASSUME NEW s
  PROVE  /\ NoFrame(s) => Cardinality(FramesIn(s)) = 0
         /\ OneFrame(s) => Cardinality(FramesIn(s)) = 1
  <1>1. ASSUME NoFrame(s) PROVE Cardinality(FramesIn(s)) = 0
    <2>1. FramesIn(s) = {}
      BY <1>1 DEF NoFrame, FramesIn
    <2> QED BY <2>1, FS_EmptySet
  <1>2. ASSUME OneFrame(s) PROVE Cardinality(FramesIn(s)) = 1
    <2>1. PICK k : FramesIn(s) = {k}
      BY <1>2 DEF OneFrame, FramesIn
    <2> QED BY <2>1, FS_Singleton
  <1> QED BY <1>1, <1>2

-------------------------------------------------------------------------------
(* A step of the parser                                                    *)

Unpins(s) == {i \in DOMAIN s : s[i].goal = "unpin"}

(* The goal that resets the flag is followed by the frame of the type it   *)
(* was set for, which is the innermost goal once the flag is reset.        *)
PinsPaired(s) ==
  \A i \in DOMAIN s :
    /\ s[i].goal = "unpin" => i + 1 \in DOMAIN s /\ s[i + 1] = Leave("Pinned")
    /\ s[i] = Leave("Pinned") => i = 1 \/ s[i - 1].goal = "unpin"

Inv ==
  /\ TypeOK
  /\ agenda \in Seq(GoalsUpTo(len))
  /\ depth = Cardinality(FramesIn(agenda))
  /\ FedTo(agenda, pos)
  /\ pinned_seen <=> Unpins(agenda) # {}
  /\ \A i, j \in Unpins(agenda) : i = j
  /\ PinsPaired(agenda)

(* The innermost goal is replaced, n bytes being read.                     *)
Replaces(g, n) ==
  /\ result = Running /\ agenda # << >>
  /\ g \in Seq(GoalsUpTo(len)) /\ agenda' = g \o Tail(agenda)
  /\ n \in Nat /\ pos' = pos + n /\ pos + n <= len /\ byte' \in ByteAt(pos + n)
  /\ returned' \in Types
  /\ UNCHANGED <<entry, len, result>>

Balanced(g) ==
  \/ depth' = depth /\ (IF Goal.goal \in FrameGoals THEN OneFrame(g) ELSE NoFrame(g))
  \/ depth < recursion_limit /\ depth' = depth + 1 /\ Goal.goal \notin FrameGoals /\ OneFrame(g)
  \/ depth' = (IF depth = 0 THEN 0 ELSE depth - 1) /\ Goal.goal \in FrameGoals /\ NoFrame(g)

Feeding(g, n) ==
  /\ Goal.goal \in Eaters => n > 0 \/ Eats(g)
  /\ FedTo(g, pos + n)

Pinning(g) ==
  \/ UNCHANGED pinned_seen /\ Goal.goal # "unpin" /\ NoUnpin(g)
  \/ pinned_seen' = FALSE /\ Goal.goal = "unpin" /\ NoUnpin(g) /\ g = << >>
  \/ /\ ~pinned_seen /\ pinned_seen' = TRUE /\ Goal.goal # "unpin"
     /\ OneUnpin(g) /\ g = <<Type, Unpin, Leave("Pinned")>>

(* How the new agenda is numbered.                                         *)
LEMMA Renumbered ==
  ASSUME NEW S, agenda \in Seq(S), agenda # << >>, NEW g \in Seq(S), agenda' = g \o Tail(agenda)
  PROVE  /\ Tail(agenda) \in Seq(S) /\ agenda' \in Seq(S)
         /\ Len(g) \in Nat /\ DOMAIN g = 1..Len(g) /\ Len(agenda) \in Nat \ {0}
         /\ DOMAIN agenda = 1..Len(agenda) /\ DOMAIN agenda' = 1..(Len(g) + Len(agenda) - 1)
         /\ agenda[1] = Goal
         /\ \A i \in 1..Len(g) : agenda'[i] = g[i]
         /\ \A i \in 2..Len(agenda) : agenda'[Len(g) + i - 1] = agenda[i]
  <1>1. /\ Tail(agenda) \in Seq(S) /\ Len(Tail(agenda)) = Len(agenda) - 1
        /\ \A i \in 1..Len(Tail(agenda)) : Tail(agenda)[i] = agenda[i + 1]
        /\ Len(agenda) \in Nat \ {0} /\ Len(g) \in Nat /\ agenda[1] = Goal
        /\ DOMAIN agenda = 1..Len(agenda) /\ DOMAIN g = 1..Len(g)
    BY HeadTailProperties DEF Goal
  <1>2. /\ agenda' \in Seq(S) /\ Len(agenda') = Len(g) + Len(Tail(agenda))
        /\ \A i \in 1..(Len(g) + Len(Tail(agenda))) :
             agenda'[i] = IF i <= Len(g) THEN g[i] ELSE Tail(agenda)[i - Len(g)]
    BY <1>1, ConcatProperties
  <1>3. DOMAIN agenda' = 1..(Len(g) + Len(agenda) - 1)
    BY <1>1, <1>2
  <1>4. ASSUME NEW i \in 1..Len(g) PROVE agenda'[i] = g[i]
    BY <1>1, <1>2
  <1>5. ASSUME NEW i \in 2..Len(agenda) PROVE agenda'[Len(g) + i - 1] = agenda[i]
    <2>1. Len(g) + i - 1 \in 1..(Len(g) + Len(Tail(agenda))) /\ ~(Len(g) + i - 1 <= Len(g))
          /\ (Len(g) + i - 1) - Len(g) = i - 1 /\ i - 1 \in 1..Len(Tail(agenda))
          /\ (i - 1) + 1 = i
      BY <1>1
    <2> QED BY <1>1, <1>2, <2>1
  <1> QED BY <1>1, <1>2, <1>3, <1>4, <1>5

(* depth follows the frames.                                               *)
LEMMA StepKeepsDepth ==
  ASSUME Inv, NEW g, NEW n, Replaces(g, n), Balanced(g)
  PROVE  depth' = Cardinality(FramesIn(agenda'))
  <1> DEFINE S == GoalsUpTo(len)
             t == Tail(agenda)
  <1>1. agenda \in Seq(S) /\ agenda # << >> /\ g \in Seq(S) /\ agenda' = g \o t
    BY DEF Inv, Replaces
  <1>2. t \in Seq(S) /\ <<Goal>> \in Seq(S) /\ agenda = <<Goal>> \o t
    BY <1>1 DEF Goal
  <1> HIDE DEF S, t
  <1>3. /\ Cardinality(FramesIn(agenda)) = Cardinality(FramesIn(<<Goal>>)) + Cardinality(FramesIn(t))
        /\ Cardinality(FramesIn(agenda')) = Cardinality(FramesIn(g)) + Cardinality(FramesIn(t))
    BY <1>1, <1>2, FramesAdd
  <1>4. Cardinality(FramesIn(t)) \in Nat
    BY <1>2, FramesFinite, FS_CardinalityType
  <1>5. Cardinality(FramesIn(<<Goal>>)) = IF Goal.goal \in FrameGoals THEN 1 ELSE 0
    <2>1. Goal.goal \in FrameGoals => OneFrame(<<Goal>>)
      BY DEF OneFrame
    <2>2. Goal.goal \notin FrameGoals => NoFrame(<<Goal>>)
      BY DEF NoFrame
    <2> QED BY <2>1, <2>2, FramesCounted
  <1>6. /\ NoFrame(g) => Cardinality(FramesIn(g)) = 0
        /\ OneFrame(g) => Cardinality(FramesIn(g)) = 1
    BY FramesCounted
  <1>7. depth = Cardinality(FramesIn(agenda))
    BY DEF Inv
  <1> DEFINE a == Cardinality(FramesIn(t))
             b == Cardinality(FramesIn(g))
  <1>8. depth = (IF Goal.goal \in FrameGoals THEN 1 ELSE 0) + a
        /\ Cardinality(FramesIn(agenda')) = b + a
    BY <1>3, <1>5, <1>7
  <1> HIDE DEF a, b
  <1>9. a \in Nat /\ (NoFrame(g) => b = 0) /\ (OneFrame(g) => b = 1)
    BY <1>4, <1>6 DEF a, b
  <1>10. CASE depth' = depth /\ (IF Goal.goal \in FrameGoals THEN OneFrame(g) ELSE NoFrame(g))
    BY <1>8, <1>9, <1>10
  <1>11. CASE depth' = depth + 1 /\ Goal.goal \notin FrameGoals /\ OneFrame(g)
    BY <1>8, <1>9, <1>11
  <1>12. CASE depth' = (IF depth = 0 THEN 0 ELSE depth - 1) /\ Goal.goal \in FrameGoals /\ NoFrame(g)
    BY <1>8, <1>9, <1>12
  <1> QED BY <1>10, <1>11, <1>12 DEF Balanced

(* Loops stay fed: what an item has not eaten yet, its goals will.         *)
LEMMA StepKeepsFed ==
  ASSUME Inv, NEW g, NEW n, Replaces(g, n), Feeding(g, n)
  PROVE  FedTo(agenda, pos)'
  <1> DEFINE S == GoalsUpTo(len)
  <1>1. agenda \in Seq(S) /\ agenda # << >> /\ g \in Seq(S) /\ agenda' = g \o Tail(agenda)
        /\ n \in Nat /\ pos' = pos + n /\ len' = len
    BY DEF Inv, Replaces
  <1>2. pos \in Nat /\ len \in Nat
    BY LimitsTyped DEF Inv, TypeOK
  <1> HIDE DEF S
  <1>3. /\ Len(g) \in Nat /\ DOMAIN g = 1..Len(g) /\ Len(agenda) \in Nat \ {0}
        /\ DOMAIN agenda = 1..Len(agenda) /\ DOMAIN agenda' = 1..(Len(g) + Len(agenda) - 1)
        /\ agenda[1] = Goal
        /\ \A i \in 1..Len(g) : agenda'[i] = g[i]
        /\ \A i \in 2..Len(agenda) : agenda'[Len(g) + i - 1] = agenda[i]
    BY <1>1, Renumbered
  <1> SUFFICES ASSUME NEW i \in DOMAIN agenda', agenda'[i].goal = "each"
               PROVE /\ agenda'[i].count <= len - agenda'[i].at
                     /\ \/ agenda'[i].at + agenda'[i].done <= pos + n
                        \/ /\ agenda'[i].at + agenda'[i].done <= pos + n + 1
                           /\ \E j \in 1..(i - 1) : agenda'[j].goal \in Eaters
    BY <1>1 DEF FedTo, EatsBefore
  <1>4. CASE i <= Len(g)
    <2>1. i \in DOMAIN g /\ agenda'[i] = g[i]
      BY <1>3, <1>4
    <2>2. /\ g[i].count <= len - g[i].at
          /\ \/ g[i].at + g[i].done <= pos + n
             \/ g[i].at + g[i].done <= pos + n + 1 /\ EatsBefore(g, i)
      BY <2>1 DEF Feeding, FedTo
    <2>3. ASSUME NEW j \in 1..(i - 1) PROVE agenda'[j] = g[j]
      BY <1>3, <2>1
    <2> QED BY <2>1, <2>2, <2>3 DEF EatsBefore
  <1>5. CASE i > Len(g)
    <2> DEFINE m == i - Len(g) + 1
    <2>1. m \in 2..Len(agenda) /\ i = Len(g) + m - 1 /\ agenda'[i] = agenda[m]
      <3>1. m \in 2..Len(agenda) /\ i = Len(g) + m - 1
        BY <1>3, <1>5
      <3> QED BY <1>3, <3>1
    <2> HIDE DEF m
    <2> DEFINE total == agenda[m].at + agenda[m].done
    <2>2. agenda[m].at \in Nat /\ agenda[m].done \in Nat /\ total \in Nat
      <3>1. agenda[m] \in GoalsUpTo(len) /\ agenda[m].goal = "each"
        BY <1>3, <2>1 DEF Inv
      <3>2. agenda[m] \in Loop
        BY <1>2, <3>1, LoopsTyped
      <3> QED BY <3>2 DEF Loop, LoopRecords
    <2>3. /\ agenda[m].count <= len - agenda[m].at
          /\ total <= pos \/ (total <= pos + 1 /\ EatsBefore(agenda, m))
      BY <1>3, <2>1 DEF Inv, FedTo
    <2> HIDE DEF total
    <2>4. CASE total <= pos
      <3>1. total <= pos + n
        BY <1>1, <1>2, <2>2, <2>4
      <3> QED BY <2>1, <2>3, <3>1 DEF total
    <2>5. CASE total <= pos + 1 /\ EatsBefore(agenda, m)
      <3>1. PICK j \in 1..(m - 1) : agenda[j].goal \in Eaters
        BY <2>5 DEF EatsBefore
      <3>2. total <= pos + n + 1
        BY <1>1, <1>2, <2>2, <2>5
      <3>3. n > 0 => total <= pos + n
        BY <1>1, <1>2, <2>2, <2>5
      <3>4. n > 0 \/ \E k \in 1..(i - 1) : agenda'[k].goal \in Eaters
        <4>1. CASE j = 1
          <5>1. n > 0 \/ Eats(g)
            BY <1>3, <3>1, <4>1 DEF Feeding
          <5>2. ASSUME NEW k \in DOMAIN g, g[k].goal \in Eaters
                PROVE k \in 1..(i - 1) /\ agenda'[k].goal \in Eaters
            BY <1>3, <1>5, <5>2
          <5> QED BY <5>1, <5>2 DEF Eats
        <4>2. CASE j # 1
          <5>1. j \in 2..Len(agenda) /\ Len(g) + j - 1 \in 1..(i - 1)
            BY <1>3, <2>1, <3>1, <4>2
          <5>2. agenda'[Len(g) + j - 1] = agenda[j]
            BY <1>3, <5>1
          <5> QED BY <3>1, <5>1, <5>2
        <4> QED BY <4>1, <4>2
      <3> QED BY <2>1, <2>3, <3>2, <3>3, <3>4 DEF total
    <2> QED BY <2>3, <2>4, <2>5
  <1> QED BY <1>3, <1>4, <1>5

(* At most one PINNED type is being parsed, and pinned_seen tells.         *)
LEMMA StepKeepsPinned ==
  ASSUME Inv, NEW g, NEW n, Replaces(g, n), Pinning(g)
  PROVE  /\ pinned_seen' \in BOOLEAN
         /\ pinned_seen' <=> Unpins(agenda') # {}
         /\ \A i, j \in Unpins(agenda') : i = j
  <1> DEFINE S == GoalsUpTo(len)
  <1>1. agenda \in Seq(S) /\ agenda # << >> /\ g \in Seq(S) /\ agenda' = g \o Tail(agenda)
        /\ pinned_seen \in BOOLEAN /\ (pinned_seen <=> Unpins(agenda) # {})
    BY DEF Inv, TypeOK, Replaces
  <1> HIDE DEF S
  <1>2. /\ Len(g) \in Nat /\ DOMAIN g = 1..Len(g) /\ Len(agenda) \in Nat \ {0}
        /\ DOMAIN agenda = 1..Len(agenda) /\ DOMAIN agenda' = 1..(Len(g) + Len(agenda) - 1)
        /\ agenda[1] = Goal
        /\ \A i \in 1..Len(g) : agenda'[i] = g[i]
        /\ \A i \in 2..Len(agenda) : agenda'[Len(g) + i - 1] = agenda[i]
    BY <1>1, Renumbered
  <1> DEFINE k == Len(g)
  <1>3. ASSUME NEW i \in DOMAIN agenda'
        PROVE \/ i \in DOMAIN g /\ agenda'[i] = g[i]
              \/ i > k /\ i - k + 1 \in 2..Len(agenda) /\ agenda'[i] = agenda[i - k + 1]
    <2>1. CASE i <= k
      BY <1>2, <2>1
    <2>2. CASE i > k
      <3>1. i - k + 1 \in 2..Len(agenda) /\ k + (i - k + 1) - 1 = i
        BY <1>2, <2>2
      <3> QED BY <1>2, <2>2, <3>1
    <2> QED BY <1>2, <2>1, <2>2
  <1>4. ASSUME NEW i \in 2..Len(agenda), agenda[i].goal = "unpin"
        PROVE k + i - 1 \in Unpins(agenda')
    <2>1. k + i - 1 \in DOMAIN agenda' /\ agenda'[k + i - 1] = agenda[i]
      BY <1>2
    <2> QED BY <1>4, <2>1 DEF Unpins
  <1>5. CASE NoUnpin(g)
    <2>1. ASSUME NEW i \in Unpins(agenda')
          PROVE i - k + 1 \in 2..Len(agenda) /\ i - k + 1 \in Unpins(agenda)
      BY <1>2, <1>3, <1>5 DEF Unpins, NoUnpin
    <2>2. \A i, j \in Unpins(agenda') : i = j
      <3> SUFFICES ASSUME NEW i \in Unpins(agenda'), NEW j \in Unpins(agenda') PROVE i = j
        OBVIOUS
      <3>1. i - k + 1 = j - k + 1
        BY <2>1 DEF Inv
      <3>2. i \in Nat /\ j \in Nat
        BY <1>2 DEF Unpins
      <3> QED BY <1>2, <3>1, <3>2
    <2>3. CASE UNCHANGED pinned_seen /\ Goal.goal # "unpin"
      <3>1. Unpins(agenda) # {} => Unpins(agenda') # {}
        <4> SUFFICES ASSUME NEW i \in Unpins(agenda) PROVE Unpins(agenda') # {}
          OBVIOUS
        <4>1. i \in 2..Len(agenda) /\ agenda[i].goal = "unpin"
          BY <1>2, <2>3 DEF Unpins
        <4> QED BY <1>4, <4>1
      <3>2. Unpins(agenda') # {} => Unpins(agenda) # {}
        BY <2>1
      <3> QED BY <1>1, <2>2, <2>3, <3>1, <3>2
    <2>4. CASE pinned_seen' = FALSE /\ Goal.goal = "unpin"
      <3>1. 1 \in Unpins(agenda)
        BY <1>2, <2>4 DEF Unpins
      <3>2. Unpins(agenda') = {}
        <4> SUFFICES ASSUME NEW i \in Unpins(agenda') PROVE FALSE
          OBVIOUS
        <4>1. i - k + 1 = 1
          BY <2>1, <3>1 DEF Inv
        <4> QED BY <2>1, <4>1
      <3> QED BY <2>2, <2>4, <3>2
    <2> QED BY <1>5, <1>1, <2>3, <2>4, OneIsNotNone DEF Pinning
  <1>6. CASE ~pinned_seen /\ pinned_seen' = TRUE /\ OneUnpin(g)
    <2>1. Unpins(agenda) = {}
      BY <1>1, <1>6
    <2>2. PICK m \in DOMAIN g :
            g[m].goal = "unpin" /\ \A i \in DOMAIN g : i # m => g[i].goal # "unpin"
      BY <1>6 DEF OneUnpin
    <2>3. m \in Unpins(agenda')
      <3>1. m \in DOMAIN agenda' /\ agenda'[m] = g[m]
        BY <1>2
      <3> QED BY <2>2, <3>1 DEF Unpins
    <2>4. ASSUME NEW i \in Unpins(agenda') PROVE i = m
      <3>1. i \in DOMAIN agenda' /\ agenda'[i].goal = "unpin"
        BY DEF Unpins
      <3>2. CASE i \in DOMAIN g /\ agenda'[i] = g[i]
        BY <2>2, <3>1, <3>2
      <3>3. CASE i > k /\ i - k + 1 \in 2..Len(agenda) /\ agenda'[i] = agenda[i - k + 1]
        BY <1>2, <2>1, <3>1, <3>3 DEF Unpins
      <3> QED BY <1>3, <3>1, <3>2, <3>3
    <2> QED BY <1>6, <2>3, <2>4
  <1> QED BY <1>5, <1>6 DEF Pinning

(* What resets the flag and what it was set for stay together.             *)
LEMMA StepKeepsPaired ==
  ASSUME Inv, NEW g, NEW n, Replaces(g, n), Pinning(g)
  PROVE  PinsPaired(agenda')
  <1> DEFINE S == GoalsUpTo(len)
             k == Len(g)
             frame == Leave("Pinned")
  <1>1. agenda \in Seq(S) /\ agenda # << >> /\ g \in Seq(S) /\ agenda' = g \o Tail(agenda)
    BY DEF Inv, Replaces
  <1> HIDE DEF S
  <1>2. /\ k \in Nat /\ DOMAIN g = 1..k /\ Len(agenda) \in Nat \ {0}
        /\ DOMAIN agenda = 1..Len(agenda) /\ DOMAIN agenda' = 1..(k + Len(agenda) - 1)
        /\ agenda[1] = Goal
        /\ \A i \in 1..k : agenda'[i] = g[i]
        /\ \A i \in 2..Len(agenda) : agenda'[k + i - 1] = agenda[i]
    BY <1>1, Renumbered
  <1>3. \A i \in DOMAIN agenda :
          /\ agenda[i].goal = "unpin" => i + 1 \in DOMAIN agenda /\ agenda[i + 1] = frame
          /\ agenda[i] = frame => i = 1 \/ agenda[i - 1].goal = "unpin"
    BY DEF Inv, PinsPaired
  <1>4. \/ NoUnpin(g) /\ (Goal.goal # "unpin" \/ k = 0)
        \/ /\ Goal.goal # "unpin" /\ k = 3
           /\ g[1].goal = "type" /\ g[2].goal = "unpin" /\ g[3] = frame /\ frame.goal = "leave"
    BY DEF Pinning, Type, Unpin, Leave
  <1> HIDE DEF k, frame
  <1> SUFFICES ASSUME NEW i \in DOMAIN agenda'
               PROVE /\ agenda'[i].goal = "unpin" =>
                          i + 1 \in DOMAIN agenda' /\ agenda'[i + 1] = frame
                     /\ agenda'[i] = frame => i = 1 \/ agenda'[i - 1].goal = "unpin"
    BY DEF PinsPaired, frame
  <1>5. CASE i <= k
    <2>1. agenda'[i] = g[i] /\ i \in 1..k
      BY <1>2, <1>5
    <2>2. CASE NoUnpin(g)
      BY <1>2, <2>1, <2>2 DEF NoUnpin, frame
    <2>3. CASE k = 3 /\ g[1].goal = "type" /\ g[2].goal = "unpin" /\ g[3] = frame /\ frame.goal = "leave"
      <3>1. i \in {1, 2, 3} /\ agenda'[2] = g[2] /\ agenda'[3] = g[3] /\ 3 \in DOMAIN agenda'
        BY <1>2, <2>1, <2>3
      <3> QED BY <2>1, <2>3, <3>1
    <2> QED BY <1>4, <2>2, <2>3
  <1>6. CASE i > k
    <2> DEFINE m == i - k + 1
    <2>1. m \in 2..Len(agenda) /\ i = k + m - 1 /\ agenda'[i] = agenda[m]
      <3>1. m \in 2..Len(agenda) /\ i = k + m - 1
        BY <1>2, <1>6
      <3> QED BY <1>2, <3>1
    <2> HIDE DEF m
    <2>2. ASSUME agenda[m].goal = "unpin"
          PROVE i + 1 \in DOMAIN agenda' /\ agenda'[i + 1] = frame
      <3>1. m + 1 \in 2..Len(agenda) /\ agenda[m + 1] = frame
        <4>1. m \in DOMAIN agenda
          BY <1>2, <2>1
        <4>2. m + 1 \in DOMAIN agenda /\ agenda[m + 1] = frame
          BY <1>3, <2>2, <4>1
        <4> QED BY <1>2, <2>1, <4>2
      <3>2. i + 1 = k + (m + 1) - 1
        BY <1>2, <2>1
      <3>3. i + 1 \in DOMAIN agenda'
        BY <1>2, <3>1, <3>2
      <3>4. agenda'[k + (m + 1) - 1] = agenda[m + 1]
        BY <1>2, <3>1
      <3> QED BY <3>1, <3>2, <3>3, <3>4
    <2>3. ASSUME agenda[m] = frame, i # 1
          PROVE agenda'[i - 1].goal = "unpin"
      <3>1. agenda[m - 1].goal = "unpin"
        <4>1. m \in DOMAIN agenda /\ m # 1
          BY <1>2, <2>1
        <4> QED BY <1>3, <2>3, <4>1
      <3>2. CASE m = 2
        <4>1. Goal.goal = "unpin"
          BY <1>2, <3>1, <3>2
        <4>2. k = 0
          BY <1>4, <4>1
        <4> QED BY <2>1, <2>3, <3>2, <4>2
      <3>3. CASE m # 2
        <4>1. m - 1 \in 2..Len(agenda) /\ i - 1 = k + (m - 1) - 1
          BY <1>2, <2>1, <3>3
        <4>2. agenda'[k + (m - 1) - 1] = agenda[m - 1]
          BY <1>2, <4>1
        <4> QED BY <3>1, <4>1, <4>2
      <3> QED BY <3>2, <3>3
    <2> QED BY <2>1, <2>2, <2>3
  <1> QED BY <1>2, <1>5, <1>6

(* A step that replaces the innermost goal so keeps the invariant.         *)
LEMMA StepKeepsInv ==
  ASSUME Inv, NEW g, NEW n, Replaces(g, n), Balanced(g), Feeding(g, n), Pinning(g)
  PROVE  Inv'
  <1>1. depth' = Cardinality(FramesIn(agenda'))
    BY StepKeepsDepth
  <1>2. FedTo(agenda, pos)'
    BY StepKeepsFed
  <1>3. /\ pinned_seen' \in BOOLEAN
        /\ pinned_seen' <=> Unpins(agenda') # {}
        /\ \A i, j \in Unpins(agenda') : i = j
    BY StepKeepsPinned
  <1>11. PinsPaired(agenda)'
    BY StepKeepsPaired
  <1>4. agenda' \in Seq(GoalsUpTo(len))
    <2>1. agenda \in Seq(GoalsUpTo(len)) /\ agenda # << >> /\ g \in Seq(GoalsUpTo(len))
          /\ agenda' = g \o Tail(agenda)
      BY DEF Inv, Replaces
    <2> QED BY <2>1, Renumbered
  <1>5. agenda' \in Seq(GoalsUpTo(len)')
    BY <1>4 DEF GoalsUpTo, Replaces
  <1>6. len \in Nat /\ recursion_limit \in Nat
    BY LimitsTyped DEF Inv, TypeOK
  <1>7. \A i \in DOMAIN agenda' : agenda'[i].goal \in Goals
    <2>1. ASSUME NEW i \in DOMAIN agenda' PROVE agenda'[i] \in GoalsUpTo(len)
      BY <1>4
    <2> QED BY <1>6, <2>1, KnownGoals
  <1>8. depth' \in 0..recursion_limit
    <2>1. depth \in 0..recursion_limit
      BY DEF Inv, TypeOK
    <2> QED BY <1>6, <2>1 DEF Balanced
  <1>9. pos' \in 0..len /\ byte' \in ByteAt(pos)'
    BY <1>6 DEF Replaces, ByteAt, Inv, TypeOK
  <1>10. TypeOK'
    BY <1>3, <1>7, <1>8, <1>9 DEF Inv, TypeOK, Replaces, Types, None, Running, Success, Outcome
  <1> QED BY <1>1, <1>2, <1>3, <1>5, <1>10, <1>11 DEF Inv, Replaces, GoalsUpTo

-------------------------------------------------------------------------------
(* What the calls push                                                     *)

Quiet(s) == \A i \in DOMAIN s : s[i].goal \notin FrameGoals \cup {"each", "unpin"}

(* Goals without frames, loops and pins disturb no invariant.              *)
LEMMA QuietGoals ==
  ASSUME NEW s, Quiet(s), NEW p
  PROVE  NoFrame(s) /\ NoUnpin(s) /\ FedTo(s, p)
  <1>1. \A i \in DOMAIN s : s[i].goal # "leave"
    BY DEF Quiet, FrameGoals
  <1> QED BY <1>1 DEF Quiet, NoFrame, NoUnpin, FedTo, Leave

(* Before a last goal of another kind they still do not.                   *)
LEMMA QuietThen ==
  ASSUME NEW S, NEW s \in Seq(S), Quiet(s), NEW x \in S, NEW p
  PROVE  /\ Append(s, x) \in Seq(S)
         /\ x.goal \in FrameGoals => OneFrame(Append(s, x)) /\ FedTo(Append(s, x), p)
         /\ x.goal \notin FrameGoals => NoFrame(Append(s, x))
         /\ x.goal # "unpin" /\ x # Leave("Pinned") => NoUnpin(Append(s, x))
         /\ x.goal \in Eaters \/ Eats(s) => Eats(Append(s, x))
         /\ x.goal = "each" /\ x.count <= len - x.at
              /\ (x.at + x.done <= p \/ (x.at + x.done <= p + 1 /\ Eats(s)))
            => FedTo(Append(s, x), p)
  <1> DEFINE t == Append(s, x)
             last == Len(s) + 1
  <1>1. /\ t \in Seq(S) /\ Len(s) \in Nat /\ DOMAIN s = 1..Len(s) /\ DOMAIN t = 1..last
        /\ t[last] = x /\ \A i \in 1..Len(s) : t[i] = s[i]
    OBVIOUS
  <1> HIDE DEF t
  <1>2. ASSUME NEW i \in DOMAIN t, i # last
        PROVE i \in DOMAIN s /\ t[i] = s[i] /\ t[i].goal \notin FrameGoals \cup {"each", "unpin"}
    BY <1>1, <1>2 DEF Quiet
  <1>3. last \in DOMAIN t
    BY <1>1
  <1>4. x.goal \in FrameGoals => OneFrame(t) /\ FedTo(t, p)
    BY <1>1, <1>2, <1>3 DEF OneFrame, FedTo, FrameGoals
  <1>5. x.goal \notin FrameGoals => NoFrame(t)
    BY <1>1, <1>2 DEF NoFrame
  <1>8. x.goal # "unpin" /\ x # Leave("Pinned") => NoUnpin(t)
    <2>1. \A i \in DOMAIN t : i # last => t[i] # Leave("Pinned")
      BY <1>2 DEF Leave, FrameGoals
    <2> QED BY <1>1, <1>2, <2>1 DEF NoUnpin
  <1>6. (x.goal \in Eaters \/ Eats(s)) => Eats(t)
    BY <1>1, <1>3 DEF Eats
  <1>7. ASSUME x.goal = "each", x.count <= len - x.at,
               x.at + x.done <= p \/ (x.at + x.done <= p + 1 /\ Eats(s))
        PROVE FedTo(t, p)
    <2>1. Eats(s) => EatsBefore(t, last)
      BY <1>1 DEF Eats, EatsBefore
    <2> QED BY <1>1, <1>2, <1>7, <2>1 DEF FedTo
  <1> QED BY <1>1, <1>4, <1>5, <1>6, <1>7, <1>8 DEF t

(* The goals of the parser's calls are goals.                              *)
LEMMA GoalsTyped ==
  ASSUME NEW length \in Nat
  PROVE  LET S == GoalsUpTo(length)
         IN  /\ {Type, Method, Instance, Uint, TypeToken, Rank, ByRef, Pin, NotPinned, Local, Unpin,
                 [goal |-> "method_byte"]} \subseteq S
             /\ \A n \in Nat : Mods(n) \in S /\ Inner(n) \in S /\ Convention(n) \in S
             /\ \A made \in Types : Leave(made) \in S
             /\ \A at \in 0..length : Reject(at) \in S
             /\ \A role \in {"return", "index", "parameter"} : Built(role) \in S
             /\ \A item \in DOMAIN ItemGoals : /\ Count(<< >>, item) \in S
                                               /\ Count(param("return"), item) \in S
             /\ Loop \subseteq S
  <1> DEFINE S == GoalsUpTo(length)
  <1>1. {Type, Method, Instance, Uint, TypeToken, Rank, ByRef, Pin, NotPinned, Local, Unpin,
         [goal |-> "method_byte"]} \subseteq [goal : Plain]
    BY DEF Type, Method, Instance, Uint, TypeToken, Rank, ByRef, Pin, NotPinned, Local, Unpin, Plain
  <1>2. \A n \in Nat : /\ Mods(n) \in [goal : {"mods", "inner"}, mods : Nat]
                      /\ Inner(n) \in [goal : {"mods", "inner"}, mods : Nat]
                      /\ Convention(n) \in [goal : {"convention"}, of : Nat]
    BY DEF Mods, Inner, Convention
  <1>3. \A made \in Types : Leave(made) \in [goal : {"leave"}, made : Types]
    BY DEF Leave
  <1>4. \A at \in 0..length : Reject(at) \in [goal : {"reject"}, at : 0..length]
    BY DEF Reject
  <1>5. \A role \in {"return", "index", "parameter"} :
          Built(role) \in [goal : {"built"}, role : {"return", "index", "parameter"}]
    BY DEF Built
  <1>6. \A item \in DOMAIN ItemGoals : /\ Count(<< >>, item) \in CountGoal
                                      /\ Count(param("return"), item) \in CountGoal
    BY DEF Count, CountGoal
  <1> QED BY <1>1, <1>2, <1>3, <1>4, <1>5, <1>6 DEF GoalsUpTo

(* The goals of a parameter read at least its type.                        *)
LEMMA ParamGoals ==
  ASSUME NEW length \in Nat, NEW role \in {"return", "index", "parameter"}
  PROVE  param(role) \in Seq(GoalsUpTo(length)) /\ Quiet(param(role)) /\ Eats(param(role))
  <1>1. param(role) \in Seq(GoalsUpTo(length))
    <2>1. Mods(0) \in GoalsUpTo(length) /\ ByRef \in GoalsUpTo(length)
          /\ Type \in GoalsUpTo(length) /\ Built(role) \in GoalsUpTo(length)
      BY GoalsTyped
    <2> QED BY <2>1 DEF param
  <1>2. Quiet(param(role))
    BY DEF param, Quiet, Mods, ByRef, Type, Built, FrameGoals
  <1>3. Eats(param(role))
    <2>1. 3 \in DOMAIN param(role) /\ param(role)[3].goal = "type"
      BY DEF param, Type
    <2> QED BY <2>1 DEF Eats, Eaters
  <1> QED BY <1>1, <1>2, <1>3

(* So do the goals of every item of a loop.                                *)
LEMMA ItemsEat ==
  ASSUME NEW length \in Nat, NEW item \in DOMAIN ItemGoals
  PROVE  /\ ItemGoals[item] \in Seq(GoalsUpTo(length))
         /\ Quiet(ItemGoals[item]) /\ Eats(ItemGoals[item])
  <1>1. item \in {"type", "uint", "local", "index", "param"}
    BY DEF ItemGoals
  <1>2. CASE item \in {"index", "param"}
    <2>1. ItemGoals["index"] = param("index") /\ ItemGoals["param"] = param("parameter")
      BY DEF ItemGoals
    <2> QED BY <1>2, <2>1, ParamGoals
  <1>3. CASE item \in {"type", "uint", "local"}
    <2>1. PICK x \in {Type, Uint, Local} : ItemGoals[item] = <<x>>
      BY <1>3 DEF ItemGoals
    <2>2. x \in GoalsUpTo(length)
      BY GoalsTyped
    <2>3. x.goal \in {"type", "uint", "local"}
      BY DEF Type, Uint, Local
    <2> QED BY <2>1, <2>2, <2>3 DEF Quiet, Eats, Eaters, FrameGoals
  <1> QED BY <1>1, <1>2, <1>3

-------------------------------------------------------------------------------
(* Every action is such a step, or fails                                   *)

(* The numbers a state of the parser holds.                                *)
LEMMA StateTypes ==
  ASSUME Inv
  PROVE  /\ len \in Nat /\ pos \in Nat /\ pos <= len /\ recursion_limit \in Nat
         /\ byte \in 0..256 /\ (byte # NoByte => pos + 1 <= len /\ byte \in 0..255)
         /\ returned \in Types /\ depth \in Nat
         /\ agenda # << >> => Goal \in GoalsUpTo(len)
  <1>1. len \in Nat /\ pos \in Nat /\ pos <= len /\ recursion_limit \in Nat
    BY LimitsTyped DEF Inv, TypeOK
  <1>2. byte \in ByteAt(pos)
    BY DEF Inv, TypeOK
  <1>3. byte \in 0..256 /\ (byte # NoByte => pos + 1 <= len /\ byte \in 0..255)
    <2>1. CASE pos < len
      BY <1>1, <1>2, <2>1, LimitsTyped DEF ByteAt
    <2>2. CASE ~(pos < len)
      BY <1>2, <2>2 DEF ByteAt, NoByte
    <2> QED BY <2>1, <2>2
  <1>4. returned \in Types /\ depth \in Nat
    BY <1>1 DEF Inv, TypeOK, Types
  <1>5. agenda # << >> => Goal \in GoalsUpTo(len)
    BY HeadTailProperties DEF Inv, Goal
  <1> QED BY <1>1, <1>3, <1>4, <1>5

(* Proceeding replaces the goal.                                           *)
LEMMA Proceeding ==
  ASSUME Inv, result = Running, agenda # << >>,
         NEW n \in Nat, pos + n <= len, NEW g \in Seq(GoalsUpTo(len)),
         Proceed(n, g), returned' \in Types
  PROVE  Replaces(g, n)
  <1>1. byte' \in ByteAt(pos + n)
    <2>1. CASE n = 0
      BY <2>1, StateTypes DEF Proceed, Inv, TypeOK
    <2>2. CASE n # 0
      BY <2>2 DEF Proceed
    <2> QED BY <2>1, <2>2
  <1> QED BY <1>1 DEF Proceed, Replaces

(* A failure is recorded, and nothing else happens.                        *)
LEMMA FailKeepsInv ==
  ASSUME Inv, NEW kind \in {"Truncated", "Malformed", "Unsupported", "RecursionLimit"},
         NEW offset \in 0..len, Fail(kind, offset)
  PROVE  Inv'
  BY DEF Inv, Fail, TypeOK, Outcome, FramesIn, FedTo, EatsBefore, Unpins, PinsPaired, GoalsUpTo, ByteAt

(* Quiet goals may replace any goal that is neither a frame nor a pin, and  *)
(* that has eaten or still will.                                           *)
LEMMA QuietStep ==
  ASSUME Inv, result = Running, agenda # << >>,
         NEW n \in Nat, pos + n <= len, NEW g \in Seq(GoalsUpTo(len)),
         Proceed(n, g), Unmoved, Quiet(g),
         Goal.goal \notin FrameGoals \cup {"unpin"},
         Goal.goal \in Eaters => n > 0 \/ Eats(g)
  PROVE  Inv'
  <1>1. returned' \in Types
    BY StateTypes DEF Unmoved
  <1>2. Replaces(g, n)
    BY <1>1, Proceeding
  <1>3. NoFrame(g) /\ NoUnpin(g) /\ FedTo(g, pos + n)
    BY QuietGoals
  <1>4. Balanced(g) /\ Feeding(g, n) /\ Pinning(g)
    BY <1>3 DEF Balanced, Feeding, Pinning, Unmoved
  <1> QED BY <1>2, <1>4, StepKeepsInv

(* A frame stays the last of the goals that replace it.                    *)
LEMMA FrameStep ==
  ASSUME Inv, result = Running, agenda # << >>,
         NEW n \in Nat, pos + n <= len, NEW s \in Seq(GoalsUpTo(len)), NEW x \in GoalsUpTo(len),
         Proceed(n, Append(s, x)), Unmoved, Quiet(s),
         Goal.goal \in FrameGoals, x.goal \in FrameGoals, x # Leave("Pinned"),
         n > 0 \/ Eats(Append(s, x))
  PROVE  Inv'
  <1> DEFINE g == Append(s, x)
  <1>1. returned' \in Types
    BY StateTypes DEF Unmoved
  <1>2. g \in Seq(GoalsUpTo(len)) /\ OneFrame(g) /\ NoUnpin(g) /\ FedTo(g, pos + n)
    BY QuietThen DEF FrameGoals
  <1> HIDE DEF g
  <1>3. Replaces(g, n)
    BY <1>1, <1>2, Proceeding DEF g
  <1>4. Balanced(g) /\ Feeding(g, n) /\ Pinning(g)
    BY <1>2 DEF Balanced, Feeding, Pinning, Unmoved, FrameGoals, g
  <1> QED BY <1>3, <1>4, StepKeepsInv

(* A loop comes behind the goals of its item, which will eat.              *)
LEMMA LoopStep ==
  ASSUME Inv, result = Running, agenda # << >>,
         NEW n \in Nat, pos + n <= len, NEW s \in Seq(GoalsUpTo(len)), NEW x \in Loop,
         Proceed(n, s \o <<x>>), Unmoved, Quiet(s),
         Goal.goal \in {"count", "each"}, Goal.goal = "count" => n > 0,
         x.count <= len - x.at,
         x.at + x.done <= pos + n \/ (x.at + x.done <= pos + n + 1 /\ Eats(s))
  PROVE  Inv'
  <1> DEFINE g == Append(s, x)
  <1>1. returned' \in Types
    BY StateTypes DEF Unmoved
  <1>2. x \in GoalsUpTo(len) /\ x.goal = "each"
    BY StateTypes, GoalsTyped DEF Loop, LoopRecords
  <1>8. x # Leave("Pinned")
    BY <1>2 DEF Leave
  <1>3. g \in Seq(GoalsUpTo(len)) /\ NoFrame(g) /\ NoUnpin(g) /\ FedTo(g, pos + n)
    BY <1>2, <1>8, QuietThen DEF FrameGoals
  <1>4. s \o <<x>> = g
    BY <1>2
  <1>5. Proceed(n, g)
    BY <1>4
  <1> HIDE DEF g
  <1>6. Replaces(g, n)
    BY <1>1, <1>3, <1>5, Proceeding
  <1>7. Balanced(g) /\ Feeding(g, n) /\ Pinning(g)
    BY <1>3 DEF Balanced, Feeding, Pinning, Unmoved, FrameGoals, Eaters
  <1> QED BY <1>6, <1>7, StepKeepsInv

(* A goal is done with, having read what it must.                          *)
LEMMA PopKeepsInv ==
  ASSUME Inv, result = Running, agenda # << >>, NEW n \in Nat, pos + n <= len,
         Proceed(n, << >>), Unmoved,
         Goal.goal \notin FrameGoals \cup {"unpin"}, Goal.goal \in Eaters => n > 0
  PROVE  Inv'
  <1> DEFINE g == << >>
  <1>1. g \in Seq(GoalsUpTo(len)) /\ Quiet(g) /\ Proceed(n, g)
    BY DEF Quiet
  <1> HIDE DEF g
  <1> QED BY <1>1, QuietStep

(* enter pushes the frame depth counts, leave pops it.                     *)
LEMMA FramesKeepInv ==
  ASSUME Inv, Enter \/ TooDeep \/ leave
  PROVE  Inv'
  <1>1. CASE Enter
    <2> DEFINE x == IF Goal = Type THEN Inner(0) ELSE [goal |-> "method_byte"]
    <2>1. /\ result = Running /\ agenda # << >> /\ Goal.goal \in {"type", "method"}
          /\ depth < recursion_limit /\ depth' = depth + 1 /\ Proceed(0, <<x>>)
          /\ UNCHANGED <<pinned_seen, returned>>
      BY <1>1 DEF Enter, Parsing, Goal
    <2>2. x \in GoalsUpTo(len) /\ x.goal \in {"inner", "method_byte"}
      BY StateTypes, GoalsTyped DEF Inner
    <2> HIDE DEF x
    <2>3. /\ OneFrame(<<x>>) /\ Eats(<<x>>) /\ NoUnpin(<<x>>) /\ FedTo(<<x>>, pos + 0)
      BY <2>2 DEF OneFrame, Eats, NoUnpin, FedTo, FrameGoals, Eaters, Leave
    <2>4. Replaces(<<x>>, 0)
      <3>1. <<x>> \in Seq(GoalsUpTo(len)) /\ 0 \in Nat /\ pos + 0 <= len /\ returned' \in Types
        BY <2>1, <2>2, StateTypes
      <3> QED BY <2>1, <3>1, Proceeding
    <2>5. Balanced(<<x>>) /\ Feeding(<<x>>, 0) /\ Pinning(<<x>>)
      BY <2>1, <2>3 DEF Balanced, Feeding, Pinning, FrameGoals
    <2> QED BY <2>4, <2>5, StepKeepsInv
  <1>2. CASE TooDeep
    BY <1>2, StateTypes, FailKeepsInv DEF TooDeep
  <1>3. CASE leave
    <2>1. /\ result = Running /\ agenda # << >> /\ Goal.goal = "leave" /\ returned' = Goal.made
          /\ depth' = (IF depth = 0 THEN 0 ELSE depth - 1) /\ Proceed(0, << >>)
          /\ UNCHANGED pinned_seen
      BY <1>3 DEF leave, Parsing, Goal
    <2>2. returned' \in Types
      BY <2>1, StateTypes, LeaveTyped
    <2>3. Replaces(<< >>, 0)
      <3>1. << >> \in Seq(GoalsUpTo(len)) /\ 0 \in Nat /\ pos + 0 <= len
        BY StateTypes
      <3> QED BY <2>1, <2>2, <3>1, Proceeding
    <2>4. Quiet(<< >>)
      BY DEF Quiet
    <2>5. Balanced(<< >>) /\ Feeding(<< >>, 0) /\ Pinning(<< >>)
      BY <2>1, <2>4, QuietGoals DEF Balanced, Feeding, Pinning, FrameGoals, Eaters
    <2> QED BY <2>3, <2>5, StepKeepsInv
  <1> QED BY <1>1, <1>2, <1>3

(* The parse ends.                                                         *)
LEMMA EndsKeepInv ==
  ASSUME Inv, Parsed \/ Truncated \/ IntegerFails
  PROVE  Inv'
  <1>1. CASE Parsed
    BY <1>1 DEF Parsed, Inv, TypeOK, FramesIn, FedTo, EatsBefore, Unpins, PinsPaired, GoalsUpTo, ByteAt
  <1>2. CASE Truncated
    BY <1>2, StateTypes, FailKeepsInv DEF Truncated
  <1>3. CASE IntegerFails
    <2>1. CASE Fail("Truncated", pos) \/ Fail("Malformed", pos)
      BY <2>1, StateTypes, FailKeepsInv
    <2>2. CASE byte < 224 /\ Fail("Truncated", pos + 1)
      <3> DEFINE offset == pos + 1
      <3>1. offset \in 0..len
        BY <2>2, StateTypes DEF NoByte
      <3>2. Fail("Truncated", offset)
        BY <2>2
      <3> HIDE DEF offset
      <3> QED BY <3>1, <3>2, FailKeepsInv
    <2>3. byte = NoByte \/ byte \in 224..255 \/ byte < 224
      <3>1. byte \in 0..256
        BY StateTypes
      <3> QED BY <3>1 DEF NoByte
    <2>4. CASE byte = NoByte
      <3>1. byte \notin 224..255 /\ ~(byte < 224)
        BY <2>4 DEF NoByte
      <3>2. Fail("Truncated", pos)
        BY <1>3, <2>4, <3>1 DEF IntegerFails
      <3> QED BY <2>1, <3>2
    <2>5. CASE byte \in 224..255
      <3>1. byte # NoByte /\ ~(byte < 224)
        BY <2>5 DEF NoByte
      <3>2. Fail("Malformed", pos)
        BY <1>3, <2>5, <3>1 DEF IntegerFails
      <3> QED BY <2>1, <3>2
    <2>6. CASE byte < 224
      <3>1. byte # NoByte /\ byte \notin 224..255
        BY <2>6 DEF NoByte
      <3>2. Fail("Truncated", pos + 1)
        BY <1>3, <2>6, <3>1 DEF IntegerFails
      <3> QED BY <2>2, <2>6, <3>2
    <2> QED BY <2>3, <2>4, <2>5, <2>6
  <1> QED BY <1>1, <1>2, <1>3

(* An integer that is read is inside the blob, and takes a byte.           *)
LEMMA IntegersFit ==
  ASSUME Inv, NEW value, IntegerReads(value)
  PROVE  /\ Width \in Nat /\ Width > 0 /\ pos + Width <= len /\ pos \in 0..len
         /\ value \in Nat
  <1>1. byte \in Nat /\ byte < 224 /\ Width <= len - pos /\ value \in Values
    <2>1. byte \in Nat
      <3>1. byte \in 0..256
        BY StateTypes
      <3> QED BY <3>1
    <2>2. byte < 224 /\ Width <= len - pos /\ value \in Values
      BY DEF IntegerReads, Remaining
    <2> QED BY <2>1, <2>2
  <1>2. Width \in {1, 2, 4}
    BY DEF Width
  <1>3. value \in Nat
    <2>1. TailSpace \in Nat
      BY DEF TailSpace
    <2>2. byte % 64 \in Nat /\ byte % 32 \in Nat
      BY <1>1
    <2>3. \A b \in Bytes : b \in Nat
      BY LimitsTyped
    <2>4. CASE Width = 1
      BY <1>1, <2>4 DEF Values
    <2>5. CASE Width = 2
      <3>1. Values = {(byte % 64) * 256 + b : b \in Bytes}
        BY <2>5 DEF Values
      <3>2. PICK b \in Bytes : value = (byte % 64) * 256 + b
        BY <1>1, <3>1
      <3> QED BY <2>2, <2>3, <3>2
    <2>6. CASE Width = 4
      <3>1. Values = {(byte % 32) * TailSpace + tail : tail \in Tails}
        BY <2>6 DEF Values
      <3>2. PICK tail \in Tails : value = (byte % 32) * TailSpace + tail
        BY <1>1, <3>1
      <3>3. tail \in Nat
        BY LimitsTyped
      <3>4. (byte % 32) * TailSpace \in Nat
        BY <2>1, <2>2
      <3> QED BY <3>2, <3>3, <3>4
    <2> QED BY <1>2, <2>4, <2>5, <2>6
  <1> QED BY <1>1, <1>2, <1>3, StateTypes

(* Integers, the counts among them.                                        *)
LEMMA IntegersKeepInv ==
  ASSUME Inv, ReadUint \/ type_token \/ ReadRank \/ bounded_count
  PROVE  Inv'
  <1>1. ASSUME NEW value, IntegerReads(value), result = Running, agenda # << >>,
               Goal.goal \in {"uint", "token", "rank"}, Proceed(Width, << >>), Unmoved
        PROVE  Inv'
    BY <1>1, IntegersFit, PopKeepsInv DEF FrameGoals
  <1>2. CASE ReadUint
    BY <1>1, <1>2 DEF ReadUint, Parsing, Goal
  <1>3. CASE type_token
    BY <1>1, <1>3, StateTypes, FailKeepsInv DEF type_token, Parsing, Goal
  <1>4. CASE ReadRank
    <2>1. PICK value \in Values :
            /\ IntegerReads(value)
            /\ Fail("Malformed", pos + Width) \/ (Proceed(Width, << >>) /\ Unmoved)
      BY <1>4 DEF ReadRank
    <2>2. CASE Fail("Malformed", pos + Width)
      <3>1. pos + Width \in 0..len
        BY <2>1, IntegersFit
      <3> QED BY <2>2, <3>1, FailKeepsInv
    <2>3. CASE Proceed(Width, << >>) /\ Unmoved
      BY <1>1, <1>4, <2>1, <2>3 DEF ReadRank, Parsing, Goal
    <2> QED BY <2>1, <2>2, <2>3
  <1>5. CASE bounded_count
    <2>1. PICK value \in Values :
            /\ IntegerReads(value)
            /\ IF value > Remaining(pos + Width)
               THEN Fail("Malformed", pos)
               ELSE /\ Proceed(Width, Goal.before \o <<Each(Goal.item, value, pos + Width)>>)
                    /\ Unmoved
      BY <1>5 DEF bounded_count
    <2>2. CASE Fail("Malformed", pos)
      BY <2>2, StateTypes, FailKeepsInv
    <2>3. CASE ~(value > Remaining(pos + Width))
      <3> DEFINE x == Each(Goal.item, value, pos + Width)
                 n == Width
                 s == Goal.before
      <3>1. n \in Nat /\ n > 0 /\ pos + n <= len /\ value \in Nat /\ pos \in Nat /\ len \in Nat
        BY <2>1, IntegersFit, StateTypes
      <3>2. /\ result = Running /\ agenda # << >> /\ Goal.goal = "count"
            /\ Proceed(n, s \o <<x>>) /\ Unmoved
        BY <1>5, <2>1, <2>3 DEF bounded_count, Parsing, Goal
      <3>3. Goal \in CountGoal
        BY <3>2, StateTypes, CountTyped
      <3>4. s \in Seq(GoalsUpTo(len)) /\ Quiet(s)
        <4>1. s \in {<< >>, param("return")} 
          BY <3>3 DEF CountGoal
        <4>2. CASE s = << >>
          <5>1. << >> \in Seq(GoalsUpTo(len)) /\ Quiet(<< >>)
            BY DEF Quiet
          <5> QED BY <4>2, <5>1
        <4>3. CASE s = param("return")
          <5>1. param("return") \in Seq(GoalsUpTo(len)) /\ Quiet(param("return"))
            BY <3>1, ParamGoals
          <5> QED BY <4>3, <5>1
        <4> QED BY <4>1, <4>2, <4>3
      <3>5. value <= len - (pos + n)
        BY <2>3, <3>1 DEF Remaining
      <3>6. x \in Loop /\ x.count = value /\ x.at = pos + n /\ x.done = 0
        BY <3>1, <3>3 DEF Each, Loop, LoopRecords, Split, CountGoal
      <3> HIDE DEF x, n, s
      <3>7. x.count <= len - x.at /\ x.at + x.done <= pos + n
        BY <3>1, <3>5, <3>6
      <3> QED BY <3>1, <3>2, <3>4, <3>6, <3>7, LoopStep
    <2> QED BY <2>1, <2>2, <2>3
  <1> QED BY <1>2, <1>3, <1>4, <1>5

(* A loop that is the innermost goal has eaten a byte for each item.       *)
LEMMA LoopAhead ==
  ASSUME Inv, agenda # << >>, Goal.goal = "each"
  PROVE  /\ Goal \in Loop /\ Goal.count <= len - Goal.at /\ Goal.at + Goal.done <= pos
         /\ ItemGoals[Goal.item] \in Seq(GoalsUpTo(len))
         /\ Quiet(ItemGoals[Goal.item]) /\ Eats(ItemGoals[Goal.item])
  <1>1. Goal \in Loop
    BY StateTypes, LoopsTyped
  <1>2. len \in Nat /\ Goal.item \in DOMAIN ItemGoals
    BY <1>1, StateTypes DEF Loop, LoopRecords
  <1>3. 1 \in DOMAIN agenda /\ agenda[1] = Goal
    BY HeadTailProperties DEF Inv, Goal
  <1>4. Goal.count <= len - Goal.at /\ Goal.at + Goal.done <= pos
    <2>1. ~EatsBefore(agenda, 1)
      BY DEF EatsBefore
    <2> QED BY <1>3, <2>1 DEF Inv, FedTo
  <1> QED BY <1>1, <1>2, <1>4, ItemsEat

(* The loops over counted items.                                           *)
LEMMA LoopsKeepInv ==
  ASSUME Inv, NextItem \/ Sentinel \/ LoopEnds
  PROVE  Inv'
  <1>1. result = Running /\ agenda # << >> /\ Goal.goal = "each"
    BY DEF NextItem, Sentinel, LoopEnds, Parsing, Goal
  <1>2. len \in Nat /\ pos \in Nat /\ pos <= len
    BY StateTypes
  <1> DEFINE s == ItemGoals[Goal.item]
  <1>3. /\ Goal \in Loop /\ Goal.count <= len - Goal.at /\ Goal.at + Goal.done <= pos
        /\ s \in Seq(GoalsUpTo(len)) /\ Quiet(s) /\ Eats(s)
    BY <1>1, LoopAhead
  <1> HIDE DEF s
  <1>4. ASSUME NEW x \in Loop, x.done = Goal.done + 1, x.count = Goal.count, x.at = Goal.at,
               NEW n \in Nat, pos + n <= len, Proceed(n, s \o <<x>>), Unmoved
        PROVE  Inv'
    <2>1. x.count <= len - x.at /\ x.at + x.done <= pos + n + 1
      BY <1>2, <1>3, <1>4 DEF Loop, LoopRecords
    <2> QED BY <1>1, <1>3, <1>4, <2>1, LoopStep
  <1>5. CASE NextItem
    <2> DEFINE x == [Goal EXCEPT !.done = @ + 1,
                                 !.extra = IF Goal.past_sentinel THEN @ + 1 ELSE @]
    <2>1. Proceed(0, ItemGoals[x.item] \o <<x>>) /\ Unmoved
      BY <1>5 DEF NextItem, ItemOf
    <2>2. /\ x \in Loop /\ x.done = Goal.done + 1 /\ x.count = Goal.count /\ x.at = Goal.at
          /\ x.item = Goal.item
      <3>1. Goal.done \in Nat /\ Goal.extra \in Nat
        BY <1>3 DEF Loop, LoopRecords
      <3> DEFINE d == Goal.done + 1
                 e == IF Goal.past_sentinel THEN Goal.extra + 1 ELSE Goal.extra
      <3>2. d \in Nat /\ e \in Nat
        BY <3>1
      <3>3. x = [Goal EXCEPT !.done = d, !.extra = e]
        OBVIOUS
      <3> HIDE DEF e
      <3>4. /\ x.done = d /\ x.count = Goal.count /\ x.at = Goal.at /\ x.item = Goal.item
        BY <1>3, <3>3 DEF Loop, LoopRecords
      <3> HIDE DEF d, x
      <3>5. x \in Loop
        <4>1. x \in LoopRecords
          BY <1>3, <3>2, <3>3 DEF Loop, LoopRecords
        <4>2. /\ x.extra = IF Goal.past_sentinel THEN Goal.extra + 1 ELSE Goal.extra
              /\ x.past_sentinel = Goal.past_sentinel
          BY <1>3, <3>3 DEF Loop, LoopRecords, e
        <4>3. Split(x)
          BY <1>3, <1>5, <3>1, <3>4, <4>2 DEF Loop, LoopRecords, Split, NextItem, Loops, d
        <4> QED BY <4>1, <4>3 DEF Loop
      <3> QED BY <3>4, <3>5 DEF d
    <2> HIDE DEF x
    <2>3. 0 \in Nat /\ pos + 0 <= len /\ Proceed(0, s \o <<x>>)
      BY <1>2, <2>1, <2>2 DEF s
    <2> QED BY <1>4, <2>1, <2>2, <2>3
  <1>6. CASE Sentinel
    <2> DEFINE x == [Goal EXCEPT !.past_sentinel = TRUE, !.done = @ + 1, !.extra = @ + 1]
    <2>1. \/ Fail("Malformed", pos)
          \/ ~Goal.past_sentinel /\ Proceed(1, ItemGoals[x.item] \o <<x>>) /\ Unmoved
      BY <1>6 DEF Sentinel, ItemOf
    <2> DEFINE d == Goal.done + 1
               e == Goal.extra + 1
    <2>2. ASSUME ~Goal.past_sentinel
          PROVE  /\ x \in Loop /\ x.done = Goal.done + 1 /\ x.count = Goal.count
                 /\ x.at = Goal.at /\ x.item = Goal.item
      <3>1. Goal.done \in Nat /\ Goal.extra \in Nat
        BY <1>3 DEF Loop, LoopRecords
      <3>2. d \in Nat /\ e \in Nat
        BY <3>1
      <3>3. x = [Goal EXCEPT !.past_sentinel = TRUE, !.done = d, !.extra = e]
        OBVIOUS
      <3> HIDE DEF e
      <3>4. /\ x.done = d /\ x.count = Goal.count /\ x.at = Goal.at /\ x.item = Goal.item
            /\ x.extra = e /\ x.past_sentinel = TRUE
        BY <1>3, <3>3 DEF Loop, LoopRecords
      <3> HIDE DEF d, x
      <3>5. x \in LoopRecords
        BY <1>3, <3>2, <3>3 DEF Loop, LoopRecords
      <3>6. Split(x)
        BY <1>3, <1>6, <3>1, <3>4 DEF Loop, LoopRecords, Split, Sentinel, AtSentinel, Loops,
           d, e
      <3> QED BY <3>4, <3>5, <3>6 DEF d, Loop
    <2> HIDE DEF x
    <2>3. CASE Fail("Malformed", pos)
      BY <2>3, StateTypes, FailKeepsInv
    <2>4. CASE ~Goal.past_sentinel /\ Proceed(1, ItemGoals[x.item] \o <<x>>) /\ Unmoved
      <3>1. byte # NoByte
        BY <1>6 DEF Sentinel, AtSentinel, NoByte
      <3>2. 1 \in Nat /\ pos + 1 <= len
        BY <3>1, StateTypes
      <3>3. Proceed(1, s \o <<x>>)
        BY <2>2, <2>4 DEF s
      <3> QED BY <1>4, <2>2, <2>4, <3>2, <3>3
    <2> QED BY <2>1, <2>3, <2>4
  <1>7. CASE LoopEnds
    <2>1. Proceed(0, << >>) /\ Unmoved
      BY <1>7 DEF LoopEnds
    <2>2. 0 \in Nat /\ pos + 0 <= len
      BY <1>2
    <2>3. Goal.goal \notin FrameGoals \cup {"unpin"} /\ Goal.goal \notin Eaters
      BY <1>1 DEF FrameGoals, Eaters
    <2> QED BY <1>1, <2>1, <2>2, <2>3, PopKeepsInv
  <1> QED BY <1>5, <1>6, <1>7

(* Custom modifiers, alone and in front of a type.                         *)
LEMMA ModifiersKeepInv ==
  ASSUME Inv, TakeModifier \/ TooManyModifiers \/ EndModifiers \/ Modified
  PROVE  Inv'
  <1>1. result = Running /\ agenda # << >> /\ Goal.goal \in {"mods", "inner"}
    BY DEF TakeModifier, TooManyModifiers, EndModifiers, Modified, Parsing, Goal
  <1>2. len \in Nat /\ pos \in Nat /\ pos <= len /\ Goal \in [goal : {"mods", "inner"}, mods : Nat]
    BY <1>1, StateTypes, ModsTyped
  <1>3. CASE TakeModifier
    <2> DEFINE x == [Goal EXCEPT !.mods = @ + 1]
               s == <<TypeToken>>
    <2>1. byte # NoByte
      BY <1>3 DEF TakeModifier, AtModifier, Modifiers, NoByte
    <2>2. pos + 1 <= len /\ 1 \in Nat
      BY <2>1, StateTypes
    <2>3. x \in [goal : {"mods", "inner"}, mods : Nat] /\ x.goal = Goal.goal
      BY <1>2
    <2>4. x \in GoalsUpTo(len)
      BY <2>3 DEF GoalsUpTo
    <2>5. s \in Seq(GoalsUpTo(len)) /\ Quiet(s) /\ Eats(s)
      <3>1. TypeToken \in GoalsUpTo(len)
        BY <1>2, GoalsTyped
      <3> QED BY <3>1 DEF Quiet, Eats, TypeToken, FrameGoals, Eaters
    <2>6. Proceed(1, <<TypeToken, x>>) /\ Unmoved
      BY <1>3 DEF TakeModifier
    <2>7. <<TypeToken, x>> = Append(s, x)
      OBVIOUS
    <2> HIDE DEF x, s
    <2>8. Proceed(1, Append(s, x))
      BY <2>6, <2>7
    <2>9. CASE Goal.goal = "inner"
      <3>1. x # Leave("Pinned")
        BY <2>3, <2>9 DEF Leave
      <3> QED BY <1>1, <2>2, <2>3, <2>4, <2>5, <2>6, <2>8, <2>9, <3>1, FrameStep DEF FrameGoals
    <2>10. CASE Goal.goal = "mods"
      <3> DEFINE g == Append(s, x)
      <3>1. g \in Seq(GoalsUpTo(len)) /\ Quiet(g)
        BY <2>3, <2>4, <2>5, <2>10 DEF Quiet, FrameGoals
      <3>2. Proceed(1, g)
        BY <2>8
      <3> HIDE DEF g
      <3> QED BY <1>1, <2>2, <2>6, <2>10, <3>1, <3>2, QuietStep DEF FrameGoals
    <2> QED BY <1>1, <2>9, <2>10
  <1>4. CASE TooManyModifiers
    BY <1>4, StateTypes, FailKeepsInv DEF TooManyModifiers
  <1>5. CASE EndModifiers
    <2>1. Proceed(0, << >>) /\ Unmoved /\ Goal.goal = "mods"
      BY <1>5 DEF EndModifiers, Parsing, Goal
    <2>2. 0 \in Nat /\ pos + 0 <= len
      BY <1>2
    <2>3. Goal.goal \notin FrameGoals \cup {"unpin"} /\ Goal.goal \notin Eaters
      BY <2>1 DEF FrameGoals, Eaters
    <2> QED BY <1>1, <2>1, <2>2, <2>3, PopKeepsInv
  <1>6. CASE Modified
    <2> DEFINE x == Leave("Modified")
               s == <<Type>>
    <2>1. Proceed(0, <<Type, x>>) /\ Unmoved /\ Goal.goal = "inner"
      BY <1>6 DEF Modified, Parsing, Goal
    <2>2. 0 \in Nat /\ pos + 0 <= len
      BY <1>2
    <2>3. x \in GoalsUpTo(len) /\ x.goal = "leave" /\ Type \in GoalsUpTo(len)
          /\ x # Leave("Pinned")
      BY <1>2, GoalsTyped DEF Types, Leave
    <2>4. s \in Seq(GoalsUpTo(len)) /\ Quiet(s) /\ Eats(s)
      BY <2>3 DEF Quiet, Eats, Type, FrameGoals, Eaters
    <2>5. <<Type, x>> = Append(s, x)
      OBVIOUS
    <2> HIDE DEF x, s
    <2>6. Proceed(0, Append(s, x)) /\ Eats(Append(s, x))
      BY <2>1, <2>3, <2>4, <2>5, QuietThen
    <2> QED BY <1>1, <2>1, <2>2, <2>3, <2>4, <2>6, FrameStep DEF FrameGoals
  <1> QED BY <1>3, <1>4, <1>5, <1>6

(* What follows an element type is parsed by quiet goals.                  *)
LEMMA PartsTyped ==
  ASSUME NEW length \in Nat, NEW b \in Constructors
  PROVE  Parts(b) \in Seq(GoalsUpTo(length)) /\ Quiet(Parts(b))
  <1> DEFINE S == GoalsUpTo(length)
             none == << >>
             array == <<Type, Rank, Count(<< >>, "uint"), Count(<< >>, "uint")>>
             generic == <<Instance, TypeToken, Count(<< >>, "type")>>
  <1>1. /\ Mods(0) \in S /\ Type \in S /\ TypeToken \in S /\ Uint \in S /\ Rank \in S
        /\ Instance \in S /\ Method \in S /\ Count(<< >>, "uint") \in S /\ Count(<< >>, "type") \in S
    BY GoalsTyped DEF ItemGoals
  <1> HIDE DEF S
  <1>2. none \in Seq(S) /\ Quiet(none)
    BY DEF Quiet
  <1>3. <<Mods(0), Type>> \in Seq(S) /\ Quiet(<<Mods(0), Type>>)
    BY <1>1 DEF Quiet, Mods, Type, FrameGoals
  <1>4. ASSUME NEW x \in {Type, TypeToken, Uint, Method}
        PROVE  <<x>> \in Seq(S) /\ Quiet(<<x>>)
    BY <1>1 DEF Quiet, Type, TypeToken, Uint, Method, FrameGoals
  <1>5. array \in Seq(S) /\ Quiet(array)
    BY <1>1 DEF Quiet, Type, Rank, Count, FrameGoals
  <1>6. generic \in Seq(S) /\ Quiet(generic)
    BY <1>1 DEF Quiet, Instance, TypeToken, Count, FrameGoals
  <1>7. \/ Parts(b) \in {none, <<Mods(0), Type>>, array, generic}
        \/ \E x \in {Type, TypeToken, Uint, Method} : Parts(b) = <<x>>
    <2> HIDE DEF none, array, generic
    <2>1. CASE b \in Primitives \cup {1}
      <3>1. /\ b \notin {15, 29} /\ b # 16 /\ b \notin {17, 18} /\ b \notin {19, 30}
            /\ b # 20 /\ b # 21 /\ b # 27
        BY <2>1 DEF Primitives
      <3> QED BY <2>1, <3>1 DEF Parts, none
    <2>2. CASE b \in {15, 29}
      BY <2>2 DEF Parts, Primitives
    <2>3. CASE b = 16
      BY <2>3 DEF Parts, Primitives
    <2>4. CASE b \in {17, 18}
      BY <2>4 DEF Parts, Primitives
    <2>5. CASE b \in {19, 30}
      BY <2>5 DEF Parts, Primitives
    <2>6. CASE b = 20
      BY <2>6 DEF Parts, Primitives, array
    <2>7. CASE b = 21
      BY <2>7 DEF Parts, Primitives, generic
    <2>8. CASE b = 27
      BY <2>8 DEF Parts, Primitives
    <2> QED BY <2>1, <2>2, <2>3, <2>4, <2>5, <2>6, <2>7, <2>8 DEF Constructors, Primitives
  <1> QED BY <1>2, <1>3, <1>4, <1>5, <1>6, <1>7 DEF S

(* The element types of type_inner.                                        *)
LEMMA ElementsKeepInv ==
  ASSUME Inv, Element \/ Pinned \/ unpin \/ NotAType
  PROVE  Inv'
  <1>1. len \in Nat /\ pos \in Nat /\ pos <= len
    BY StateTypes
  <1>2. CASE Element
    <2> DEFINE s == Parts(byte)
               x == Leave(Made(byte))
    <2>1. /\ result = Running /\ agenda # << >> /\ Goal.goal = "inner" /\ byte \in Constructors
          /\ Proceed(1, Append(s, x)) /\ Unmoved
      BY <1>2 DEF Element, AtElement, Parsing, Goal
    <2>2. pos + 1 <= len /\ 1 \in Nat
      BY <2>1, StateTypes DEF Constructors, NoByte
    <2>3. s \in Seq(GoalsUpTo(len)) /\ Quiet(s)
      BY <1>1, <2>1, PartsTyped
    <2>4. x \in GoalsUpTo(len) /\ x.goal = "leave" /\ x # Leave("Pinned")
      BY <1>1, GoalsTyped DEF Leave, Made, Types
    <2> HIDE DEF s, x
    <2> QED BY <2>1, <2>2, <2>3, <2>4, FrameStep DEF FrameGoals
  <1>3. CASE Pinned
    <2>1. CASE Fail("Malformed", pos)
      BY <1>1, <2>1, FailKeepsInv
    <2>2. CASE ~Fail("Malformed", pos)
      <3> DEFINE g == <<Type, Unpin, Leave("Pinned")>>
      <3>1. /\ result = Running /\ agenda # << >> /\ Goal.goal = "inner" /\ byte = 69
            /\ ~pinned_seen /\ pinned_seen' = TRUE /\ Proceed(1, g) /\ UNCHANGED <<depth, returned>>
        BY <1>3, <2>2 DEF Pinned, AtElement, Parsing, Goal
      <3>2. pos + 1 <= len /\ 1 \in Nat /\ returned' \in Types
        BY <3>1, StateTypes DEF NoByte
      <3>3. g \in Seq(GoalsUpTo(len))
        <4>1. Type \in GoalsUpTo(len) /\ Unpin \in GoalsUpTo(len) /\ Leave("Pinned") \in GoalsUpTo(len)
          BY <1>1, GoalsTyped DEF Types
        <4> QED BY <4>1
      <3>4. g[1].goal = "type" /\ g[2].goal = "unpin" /\ g[3].goal = "leave" /\ DOMAIN g = 1..3
        BY DEF Type, Unpin, Leave
      <3> HIDE DEF g
      <3>5. OneFrame(g)
        BY <3>4 DEF OneFrame, FrameGoals
      <3>6. OneUnpin(g)
        BY <3>4 DEF OneUnpin
      <3>7. FedTo(g, pos + 1)
        BY <3>4 DEF FedTo
      <3>8. Replaces(g, 1)
        BY <3>1, <3>2, <3>3, Proceeding
      <3>9. Balanced(g)
        BY <3>1, <3>5 DEF Balanced, FrameGoals
      <3>10. Feeding(g, 1)
        BY <3>7 DEF Feeding
      <3>11. Pinning(g)
        BY <3>1, <3>6 DEF Pinning, g
      <3> QED BY <3>8, <3>9, <3>10, <3>11, StepKeepsInv
    <2> QED BY <2>1, <2>2
  <1>4. CASE unpin
    <2> DEFINE g == << >>
    <2>1. /\ result = Running /\ agenda # << >> /\ Goal.goal = "unpin" /\ pinned_seen' = FALSE
          /\ Proceed(0, g) /\ UNCHANGED <<depth, returned>>
      BY <1>4 DEF unpin, Parsing, Goal
    <2>2. 0 \in Nat /\ pos + 0 <= len /\ returned' \in Types
      BY <1>1, <2>1, StateTypes
    <2>3. g \in Seq(GoalsUpTo(len)) /\ NoFrame(g) /\ NoUnpin(g) /\ FedTo(g, pos + 0)
          /\ g = << >>
      BY DEF NoFrame, NoUnpin, FedTo
    <2> HIDE DEF g
    <2>4. Replaces(g, 0)
      BY <2>1, <2>2, <2>3, Proceeding
    <2>5. Balanced(g) /\ Feeding(g, 0) /\ Pinning(g)
      BY <2>1, <2>3 DEF Balanced, Feeding, Pinning, FrameGoals, Eaters
    <2> QED BY <2>4, <2>5, StepKeepsInv
  <1>5. CASE NotAType
    <2>1. CASE byte = 33
      BY <1>1, <1>5, <2>1, FailKeepsInv DEF NotAType
    <2>2. CASE byte # 33
      BY <1>1, <1>5, <2>2, FailKeepsInv DEF NotAType
    <2> QED BY <2>1, <2>2
  <1> QED BY <1>2, <1>3, <1>4, <1>5

(* Quiet goals are quiet in a row.                                         *)
LEMMA QuietConcat ==
  ASSUME NEW S, NEW s \in Seq(S), NEW t \in Seq(S), Quiet(s), Quiet(t)
  PROVE  s \o t \in Seq(S) /\ Quiet(s \o t)
  <1> DEFINE u == s \o t
  <1>1. /\ u \in Seq(S) /\ Len(s) \in Nat /\ Len(t) \in Nat /\ DOMAIN s = 1..Len(s)
        /\ DOMAIN t = 1..Len(t) /\ DOMAIN u = 1..(Len(s) + Len(t))
        /\ \A i \in 1..(Len(s) + Len(t)) : u[i] = IF i <= Len(s) THEN s[i] ELSE t[i - Len(s)]
    BY ConcatProperties
  <1> HIDE DEF u
  <1>2. ASSUME NEW i \in DOMAIN u PROVE u[i].goal \notin FrameGoals \cup {"each", "unpin"}
    <2>1. CASE i <= Len(s)
      BY <1>1, <2>1 DEF Quiet
    <2>2. CASE i > Len(s)
      <3>1. i - Len(s) \in 1..Len(t)
        BY <1>1, <2>2
      <3> QED BY <1>1, <2>2, <3>1 DEF Quiet
    <2> QED BY <1>1, <2>1, <2>2
  <1> QED BY <1>1, <1>2 DEF Quiet, u

(* A method signature's count and return type follow its convention.       *)
LEMMA MethodKeepsInv ==
  ASSUME Inv, method_sig_inner
  PROVE  Inv'
  <1> DEFINE S == GoalsUpTo(len)
             a == IF IsGeneric THEN <<Uint>> ELSE << >>
             b == IF byte % 16 \in MethodConventions THEN << >> ELSE <<Reject(pos)>>
             c == Count(param("return"), "param")
             x == Leave(Signature)
             t == a \o b
             s == Append(t, c)
  <1>1. len \in Nat /\ pos \in 0..len
    BY StateTypes
  <1>2. /\ result = Running /\ agenda # << >> /\ Goal.goal = "method_byte" /\ byte # NoByte
        /\ Proceed(1, t \o <<c, x>>) /\ Unmoved
    BY DEF method_sig_inner, Parsing, Goal
  <1>3. pos + 1 <= len /\ 1 \in Nat
    BY <1>2, StateTypes
  <1>4. Uint \in S /\ Reject(pos) \in S /\ c \in S /\ x \in S
    BY <1>1, GoalsTyped DEF ItemGoals, Signature, Types
  <1>5. c.goal = "count" /\ x.goal = "leave" /\ x # Leave("Pinned")
    BY DEF Count, Leave, Signature
  <1>6. a \in Seq(S) /\ Quiet(a)
    <2>1. <<Uint>> \in Seq(S) /\ << >> \in Seq(S) /\ Quiet(<<Uint>>) /\ Quiet(<< >>)
      BY <1>4 DEF Quiet, Uint, FrameGoals
    <2> QED BY <2>1
  <1>7. b \in Seq(S) /\ Quiet(b)
    <2>1. <<Reject(pos)>> \in Seq(S) /\ << >> \in Seq(S) /\ Quiet(<<Reject(pos)>>) /\ Quiet(<< >>)
      BY <1>4 DEF Quiet, Reject, FrameGoals
    <2> QED BY <2>1
  <1> HIDE DEF S, a, b, c, x
  <1>8. t \in Seq(S) /\ Quiet(t)
    BY <1>6, <1>7, QuietConcat
  <1> HIDE DEF t
  <1>9. s \in Seq(S) /\ Quiet(s)
    <2>1. <<c>> \in Seq(S) /\ Quiet(<<c>>) /\ Append(t, c) = t \o <<c>>
      BY <1>4, <1>5, <1>8 DEF Quiet, FrameGoals
    <2> QED BY <1>8, <2>1, QuietConcat
  <1>10. t \o <<c, x>> = Append(s, x)
    BY <1>4, <1>8
  <1> HIDE DEF s
  <1>11. Proceed(1, Append(s, x))
    BY <1>2, <1>10
  <1> QED BY <1>2, <1>3, <1>4, <1>5, <1>9, <1>11, FrameStep DEF FrameGoals, S

(* Conventions, instances, parameters and locals.                          *)
LEMMA PartsKeepInv ==
  ASSUME Inv, \/ InstanceKind \/ expect_convention \/ RejectConvention \/ byref \/ built
              \/ local_var \/ PinLocal \/ CheckLocal
  PROVE  Inv'
  <1>1. len \in Nat /\ pos \in Nat /\ pos <= len /\ pos + 0 <= len /\ pos \in 0..len
        /\ (byte # NoByte => pos + 1 <= len)
    BY StateTypes
  <1> DEFINE Other == {"built", "byref", "pin", "not_pinned"}
  <1>2. ASSUME result = Running, agenda # << >>, byte # NoByte, Proceed(1, << >>), Unmoved,
               Goal.goal \in Other \cup {"instance", "convention", "local"}
        PROVE  Inv'
    <2>1. Goal.goal \notin FrameGoals \cup {"unpin"} /\ 1 \in Nat /\ 1 > 0 /\ pos + 1 <= len
      BY <1>1, <1>2 DEF FrameGoals
    <2> QED BY <1>2, <2>1, PopKeepsInv
  <1>3. ASSUME result = Running, agenda # << >>, Proceed(0, << >>), Unmoved, Goal.goal \in Other
        PROVE  Inv'
    <2>1. Goal.goal \notin FrameGoals \cup {"unpin"} /\ Goal.goal \notin Eaters /\ 0 \in Nat
      BY <1>3 DEF FrameGoals, Eaters
    <2> QED BY <1>1, <1>3, <2>1, PopKeepsInv
  <1>4. CASE InstanceKind
    BY <1>1, <1>2, <1>4, FailKeepsInv DEF InstanceKind, Parsing, Goal
  <1>5. CASE expect_convention
    BY <1>1, <1>2, <1>5, FailKeepsInv DEF expect_convention, Parsing, Goal
  <1>6. CASE RejectConvention
    <2>1. agenda # << >> /\ Goal.goal = "reject" /\ Fail("Malformed", Goal.at)
      BY <1>6 DEF RejectConvention, Parsing, Goal
    <2>2. Goal.at \in 0..len
      BY <1>1, <2>1, StateTypes, RejectTyped
    <2> QED BY <2>1, <2>2, FailKeepsInv
  <1>7. CASE byref
    <2>1. /\ result = Running /\ agenda # << >> /\ byte # NoByte /\ Unmoved
          /\ Goal.goal \in Other
          /\ Proceed(IF byte = 16 THEN 1 ELSE 0, << >>)
      BY <1>7 DEF byref, Parsing, Goal
    <2>2. CASE byte = 16
      <3>1. Proceed(1, << >>)
        BY <2>1, <2>2
      <3> QED BY <1>2, <2>1, <3>1
    <2>3. CASE byte # 16
      <3>1. Proceed(0, << >>)
        BY <2>1, <2>3
      <3> QED BY <1>3, <2>1, <3>1
    <2> QED BY <2>2, <2>3
  <1>8. CASE built
    BY <1>3, <1>8 DEF built, Parsing, Goal
  <1>9. CASE local_var
    <2> DEFINE g == <<Mods(0), Pin, ByRef, Type, NotPinned>>
    <2>1. /\ result = Running /\ agenda # << >> /\ Goal.goal = "local" /\ byte # NoByte /\ Unmoved
          /\ Proceed(1, << >>) \/ Proceed(0, g)
      BY <1>9 DEF local_var, Parsing, Goal
    <2>2. g \in Seq(GoalsUpTo(len)) /\ Quiet(g) /\ Eats(g)
      <3>1. /\ Mods(0) \in GoalsUpTo(len) /\ Pin \in GoalsUpTo(len) /\ ByRef \in GoalsUpTo(len)
            /\ Type \in GoalsUpTo(len) /\ NotPinned \in GoalsUpTo(len)
        BY <1>1, GoalsTyped
      <3>2. g \in Seq(GoalsUpTo(len))
        BY <3>1
      <3>3. Quiet(g)
        BY DEF Quiet, Mods, Pin, ByRef, Type, NotPinned, FrameGoals
      <3>4. Eats(g)
        <4>1. 4 \in DOMAIN g /\ g[4].goal = "type"
          BY DEF Type
        <4> QED BY <4>1 DEF Eats, Eaters
      <3> QED BY <3>2, <3>3, <3>4
    <2> HIDE DEF g
    <2>3. CASE Proceed(0, g)
      <3>1. Goal.goal \notin FrameGoals \cup {"unpin"} /\ 0 \in Nat
        BY <2>1 DEF FrameGoals
      <3> QED BY <1>1, <2>1, <2>2, <2>3, <3>1, QuietStep
    <2> QED BY <1>2, <2>1, <2>3
  <1>10. CASE PinLocal
    <2> DEFINE g == <<Mods(0)>>
    <2>1. /\ result = Running /\ agenda # << >> /\ Goal.goal = "pin" /\ byte # NoByte /\ Unmoved
          /\ Proceed(1, g) \/ Proceed(0, << >>)
      BY <1>10 DEF PinLocal, Parsing, Goal
    <2>2. g \in Seq(GoalsUpTo(len)) /\ Quiet(g)
      <3>1. Mods(0) \in GoalsUpTo(len)
        BY <1>1, GoalsTyped
      <3> QED BY <3>1 DEF Quiet, Mods, FrameGoals
    <2> HIDE DEF g
    <2>3. CASE Proceed(1, g)
      <3>1. Goal.goal \notin FrameGoals \cup {"unpin"} /\ 1 \in Nat /\ 1 > 0 /\ pos + 1 <= len
        BY <1>1, <2>1 DEF FrameGoals
      <3> QED BY <2>1, <2>2, <2>3, <3>1, QuietStep
    <2> QED BY <1>3, <2>1, <2>3
  <1>11. CASE CheckLocal
    BY <1>1, <1>3, <1>11, FailKeepsInv DEF CheckLocal, Parsing, Goal
  <1> QED BY <1>4, <1>5, <1>6, <1>7, <1>8, <1>9, <1>10, <1>11

-------------------------------------------------------------------------------
(* The invariant                                                           *)

(* The goals a parser starts with are quiet.                               *)
LEMMA InvInit ==
  ASSUME Init
  PROVE  Inv
  <1> DEFINE S == GoalsUpTo(len)
  <1>1. len \in Nat /\ recursion_limit \in Nat
    BY LimitsTyped DEF Init
  <1>2. agenda \in Seq(S) /\ Quiet(agenda)
    <2>1. /\ Method \in S /\ Type \in S /\ Mods(0) \in S
          /\ \A n \in Nat : Convention(n) \in S
          /\ Count(<< >>, "local") \in S /\ Count(<< >>, "type") \in S
          /\ Count(param("return"), "index") \in S
      BY <1>1, GoalsTyped DEF ItemGoals
    <2> HIDE DEF S
    <2>2. CASE agenda \in {<<Method>>, <<Type>>}
      <3>1. CASE agenda = <<Method>>
        BY <2>1, <3>1 DEF Quiet, Method, FrameGoals
      <3>2. CASE agenda = <<Type>>
        BY <2>1, <3>2 DEF Quiet, Type, FrameGoals
      <3> QED BY <2>2, <3>1, <3>2
    <2>3. CASE agenda = <<Convention(6), Mods(0), Type>>
      BY <2>1, <2>3 DEF Quiet, Convention, Mods, Type, FrameGoals
    <2>4. ASSUME NEW n \in Nat, NEW c \in S, c.goal = "count", agenda = <<Convention(n), c>>
          PROVE  agenda \in Seq(S) /\ Quiet(agenda)
      BY <2>1, <2>4 DEF Quiet, Convention, FrameGoals
    <2>5. CASE agenda = <<Convention(7), Count(<< >>, "local")>>
      BY <2>1, <2>4, <2>5 DEF Count
    <2>6. CASE agenda = <<Convention(8), Count(param("return"), "index")>>
      BY <2>1, <2>4, <2>6 DEF Count
    <2>7. CASE agenda = <<Convention(10), Count(<< >>, "type")>>
      BY <2>1, <2>4, <2>7 DEF Count
    <2>8. \/ agenda \in {<<Method>>, <<Type>>}
          \/ agenda = <<Convention(6), Mods(0), Type>>
          \/ agenda = <<Convention(7), Count(<< >>, "local")>>
          \/ agenda = <<Convention(8), Count(param("return"), "index")>>
          \/ agenda = <<Convention(10), Count(<< >>, "type")>>
      BY DEF Init, Start
    <2> QED BY <2>2, <2>3, <2>5, <2>6, <2>7, <2>8
  <1>3. NoFrame(agenda) /\ NoUnpin(agenda) /\ FedTo(agenda, pos)
    BY <1>2, QuietGoals
  <1>4. Cardinality(FramesIn(agenda)) = 0
    BY <1>3, FramesCounted
  <1>5. Unpins(agenda) = {}
    BY <1>3 DEF NoUnpin, Unpins
  <1>6. \A i \in DOMAIN agenda : agenda[i].goal \in Goals
    <2>1. \A i \in DOMAIN agenda : agenda[i] \in S
      BY <1>2
    <2> QED BY <1>1, <2>1, KnownGoals
  <1>7. TypeOK
    <2>1. entry \in DOMAIN Start /\ len \in Lengths /\ byte \in ByteAt(pos)
      BY DEF Init
    <2>2. pos \in 0..len /\ depth \in 0..recursion_limit /\ pinned_seen \in BOOLEAN
      <3>1. pos = 0 /\ depth = 0
        BY DEF Init
      <3>2. pinned_seen \in BOOLEAN
        BY DEF Init
      <3> QED BY <1>1, <3>1, <3>2
    <2>3. returned = None /\ result = Running
      BY DEF Init
    <2> QED BY <1>6, <2>1, <2>2, <2>3 DEF TypeOK
  <1>8. PinsPaired(agenda)
    BY <1>3 DEF NoUnpin, PinsPaired
  <1> QED BY <1>2, <1>3, <1>4, <1>5, <1>7, <1>8 DEF Inv, Init

(* Every step keeps it.                                                    *)
LEMMA InvNext ==
  ASSUME Inv, [Next]_vars
  PROVE  Inv'
  <1>1. CASE UNCHANGED vars
    BY <1>1 DEF vars, Inv, TypeOK, FramesIn, FedTo, EatsBefore, Unpins, PinsPaired, GoalsUpTo, ByteAt
  <1>2. CASE Next
    BY <1>2, EndsKeepInv, FramesKeepInv, IntegersKeepInv, LoopsKeepInv, ModifiersKeepInv,
       ElementsKeepInv, MethodKeepsInv, PartsKeepInv
       DEF Next
  <1> QED BY <1>1, <1>2

(* The parser, whatever blob it is given, keeps the invariant.             *)
LEMMA InvHolds == Spec => []Inv
  BY InvInit, InvNext, PTL DEF Spec

-------------------------------------------------------------------------------
(* What the runs check                                                     *)

(* The position stays in the blob and errors name offsets of it, for every *)
(* signature parser.                                                       *)
THEOREM TypeCorrect == Spec => []TypeOK
  <1>1. Inv => TypeOK
    BY DEF Inv
  <1> QED BY <1>1, InvHolds, PTL

(* depth is the number of type_ and method_sig calls on the stack, so the  *)
(* stack never outgrows recursion_limit and every return gives a level     *)
(* back, whatever was parsed in between (signature.rs:10-12).              *)
THEOREM DepthFollowsNesting == Spec => []DepthIsNesting
  <1>1. Inv => DepthIsNesting
    BY DEF Inv, DepthIsNesting, OpenCalls, FramesIn, FrameGoals
  <1> QED BY <1>1, InvHolds, PTL

(* Every finished item of a counted list took a byte, and what was reserved*)
(* for the list was bounded by the bytes left (signature.rs:614-615).      *)
THEOREM ItemsTakeBytes == Spec => []EveryItemTakesAByte
  <1>1. ASSUME Inv PROVE EveryItemTakesAByte
    <2> SUFFICES ASSUME NEW i \in DOMAIN agenda, agenda[i].goal = "each"
                 PROVE  LET loop == agenda[i]
                            finished == IF i = 1 THEN loop.done ELSE loop.done - 1
                        IN  /\ loop.count <= len - loop.at
                            /\ finished > 0 => loop.at + finished <= pos
      BY DEF EveryItemTakesAByte, Remaining
    <2> DEFINE loop == agenda[i]
    <2>1. loop \in Loop /\ pos \in Nat /\ i \in Nat
      <3>1. loop \in GoalsUpTo(len) /\ len \in Nat /\ pos \in Nat /\ i \in Nat
        BY <1>1, StateTypes DEF Inv
      <3> QED BY <3>1, LoopsTyped
    <2>2. loop.count \in Nat /\ loop.at \in Nat /\ loop.done \in Nat
      BY <2>1 DEF Loop, LoopRecords
    <2>3. /\ loop.count <= len - loop.at
          /\ \/ loop.at + loop.done <= pos
             \/ loop.at + loop.done <= pos + 1 /\ EatsBefore(agenda, i)
      BY <1>1 DEF Inv, FedTo
    <2>4. i = 1 => ~EatsBefore(agenda, i)
      BY DEF EatsBefore
    <2> HIDE DEF loop
    <2>5. CASE i = 1
      BY <2>1, <2>2, <2>3, <2>4, <2>5 DEF loop
    <2>6. CASE i # 1
      BY <2>1, <2>2, <2>3, <2>6 DEF loop
    <2> QED BY <2>5, <2>6
  <1> QED BY <1>1, InvHolds, PTL

(* A sentinel is followed by a parameter that is read in the same turn of  *)
(* the loop, so what is behind a sentinel is never empty, and it is never  *)
(* counted as a parameter itself (signature.rs:855-868); no other list is  *)
(* split.                                                                  *)
THEOREM SentinelsSplit == Spec => []SentinelSplits
  <1>1. ASSUME Inv PROVE SentinelSplits
    <2> SUFFICES ASSUME NEW i \in DOMAIN agenda, agenda[i].goal = "each"
                 PROVE  Split(agenda[i])
      BY DEF SentinelSplits, Split
    <2>1. agenda[i] \in GoalsUpTo(len) /\ len \in Nat
      BY <1>1, StateTypes DEF Inv
    <2> QED BY <2>1, LoopsTyped DEF Loop
  <1> QED BY <1>1, InvHolds, PTL

(* Where an element type is read the flag tells whether the type inside a  *)
(* PINNED is being parsed.                                                 *)
LEMMA FlagTells ==
  ASSUME Inv, ReadsPinned
  PROVE  pinned_seen <=> InPinned
  <1>1. /\ agenda # << >> /\ Goal.goal = "inner"
        /\ agenda \in Seq(GoalsUpTo(len)) /\ (pinned_seen <=> Unpins(agenda) # {})
    BY DEF ReadsPinned, AtElement, Parsing, Goal, Inv
  <1>2. agenda[1] = Goal /\ DOMAIN agenda = 1..Len(agenda) /\ Len(agenda) \in Nat
    BY <1>1, HeadTailProperties DEF Goal
  <1>3. \A i \in DOMAIN agenda :
          /\ agenda[i].goal = "unpin" => i + 1 \in DOMAIN agenda /\ agenda[i + 1] = Leave("Pinned")
          /\ agenda[i] = Leave("Pinned") => i = 1 \/ agenda[i - 1].goal = "unpin"
    BY DEF Inv, PinsPaired
  <1>4. Unpins(agenda) # {} => InPinned
    BY <1>3 DEF Unpins, InPinned
  <1>5. ASSUME NEW i \in DOMAIN agenda, agenda[i] = Leave("Pinned")
        PROVE  Unpins(agenda) # {}
    <2>1. i # 1
      BY <1>1, <1>2, <1>5 DEF Leave
    <2>2. agenda[i - 1].goal = "unpin" /\ i - 1 \in DOMAIN agenda
      BY <1>2, <1>3, <1>5, <2>1
    <2> QED BY <2>2 DEF Unpins
  <1> QED BY <1>1, <1>4, <1>5 DEF InPinned

(* A PINNED that is read as a type is read by no other action.             *)
LEMMA PinnedReads ==
  ASSUME Inv, ReadsPinned, Next
  PROVE  Pinned
  <1>1. /\ agenda # << >> /\ Goal.goal = "inner" /\ Goal.mods = 0 /\ byte = 69
        /\ recursion_limit \in Nat
    BY StateTypes DEF ReadsPinned, AtElement, Parsing, Goal
  <1>2. ~Parsed /\ ~Truncated
    BY <1>1 DEF Parsed, Truncated, NoByte
  <1>3. /\ ~Enter /\ ~TooDeep /\ ~leave
        /\ ~IntegerFails /\ ~ReadUint /\ ~type_token /\ ~ReadRank /\ ~bounded_count
        /\ ~NextItem /\ ~Sentinel /\ ~LoopEnds /\ ~EndModifiers /\ ~unpin /\ ~InstanceKind
        /\ ~expect_convention /\ ~method_sig_inner /\ ~RejectConvention
        /\ ~byref /\ ~built /\ ~local_var /\ ~PinLocal /\ ~CheckLocal
    BY <1>1 DEF Parsing, Goal, Enter, TooDeep, leave, IntegerFails, ReadUint, type_token, ReadRank,
       bounded_count, NextItem, Sentinel, LoopEnds, EndModifiers, unpin, InstanceKind,
       expect_convention, method_sig_inner, RejectConvention, byref, built, local_var, PinLocal,
       CheckLocal
  <1>4. ~TakeModifier /\ ~TooManyModifiers /\ ~Modified
    BY <1>1 DEF TakeModifier, AtModifier, Modifiers, TooManyModifiers, Modified
  <1>5. ~Element /\ ~NotAType
    BY <1>1 DEF Element, NotAType, Constructors
  <1> QED BY <1>2, <1>3, <1>4, <1>5 DEF Next

(* A PINNED read as a type is rejected exactly inside the type of another, *)
(* whatever was parsed before and however deep (signature.rs:746-753).     *)
THEOREM NestedPinsAreRejected == Spec => NestedPinnedRejected
  <1>1. ASSUME Inv, [Next]_vars
        PROVE  [ReadsPinned => (result' # Running <=> InPinned)]_vars
    <2> SUFFICES ASSUME Next, ReadsPinned PROVE result' # Running <=> InPinned
      BY <1>1
    <2>1. Pinned /\ (pinned_seen <=> InPinned)
      BY <1>1, PinnedReads, FlagTells
    <2>2. CASE pinned_seen
      <3>1. result' = Outcome("Malformed", pos)
        BY <2>1, <2>2 DEF Pinned, Fail
      <3> QED BY <2>1, <2>2, <3>1 DEF Outcome, Running
    <2>3. CASE ~pinned_seen
      <3>1. result' = result /\ result = Running
        BY <2>1, <2>3 DEF Pinned, Proceed, ReadsPinned, AtElement, Parsing
      <3> QED BY <2>1, <2>3, <3>1
    <2> QED BY <2>2, <2>3
  <1> QED BY <1>1, InvHolds, PTL DEF Spec, NestedPinnedRejected
===============================================================================
