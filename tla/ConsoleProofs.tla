--------------------------- MODULE ConsoleProofs ---------------------------
(***************************************************************************)
(* Theorems about the console, for any tasks, priorities and messages.     *)
(***************************************************************************)
EXTENDS Console, Arithmetic, FiniteSetTheorems, SequenceTheorems, TLAPS

-----------------------------------------------------------------------------
(***************************************************************************)
(* The inductive invariant.                                                *)
(***************************************************************************)

\* While the mutex is free, who still waits for it has been passed over for a task of
\* no lower priority, which is about to take it.
WaitersAreRepresented ==
  \A v \in Tasks :
    pc[v] = "blocked" /\ mutex = NoOne =>
      \E u \in Tasks : pc[u] = "take" /\ Priority[v] <= Priority[u]

ConsoleInv == TypeOK /\ WritersHaveTheMutex /\ WaitersAreRepresented

\* The message of a task that logs none is a message.
LEMMA SilenceIsAMessage == Silence \in Message
BY DEF Silence, Message, Levels

LEMMA InitConsoleInv == Init => ConsoleInv
BY SilenceIsAMessage, ConsoleAssumption
   DEF Init, ConsoleInv, TypeOK, WritersHaveTheMutex,
       WaitersAreRepresented

\* What a step of a task leaves of the types.
LEMMA StepTypeOK ==
  ASSUME ConsoleInv, NEW t \in Tasks, Wake(t) \/ Step(t)
  PROVE  TypeOK'
<1> USE ConsoleAssumption DEF ConsoleInv, TypeOK
<1>1. CASE Wake(t)
  BY <1>1 DEF Wake
<1>2. CASE Sleep(t)
  BY <1>2 DEF Sleep
<1>3. ASSUME NEW m \in Says[t], Log(t, m) PROVE TypeOK'
  <2>1. msg' = [msg EXCEPT ![t] = m] /\ pc' = [pc EXCEPT ![t] = "take"]
        /\ UNCHANGED <<done, mutex, report, told>>
    BY <1>3 DEF Log
  <2>. QED BY <2>1
<1>4. CASE Take(t)
  BY <1>4 DEF Take
<1>5. CASE Write(t)
  <2>1. done' = [done EXCEPT ![t] = @ + 1] /\ UNCHANGED <<pc, msg, mutex, report, told>>
    BY <1>5 DEF Write
  <2>. QED BY <2>1
<1>6. CASE Give(t)
  <2>1. /\ mutex' = NoOne /\ UNCHANGED <<report, told>>
        /\ msg' = [msg EXCEPT ![t] = Silence] /\ done' = [done EXCEPT ![t] = 0]
    BY <1>6 DEF Give
  <2>2. pc' \in [Tasks -> {"away", "work", "take", "blocked", "write"}]
    BY <1>6 DEF Give, Blocked
  <2>. QED BY SilenceIsAMessage, <2>1, <2>2
<1>. QED BY <1>1, <1>2, <1>3, <1>4, <1>5, <1>6 DEF Step

\* A step of a task leaves the mutex with who is writing, and nobody passed over.
LEMMA StepOwner ==
  ASSUME ConsoleInv, NEW t \in Tasks, Wake(t) \/ Step(t)
  PROVE  WritersHaveTheMutex' /\ WaitersAreRepresented'
<1> USE ConsoleAssumption DEF ConsoleInv, TypeOK, WritersHaveTheMutex, WaitersAreRepresented
<1>1. CASE Wake(t)
  BY <1>1 DEF Wake
<1>2. CASE Sleep(t)
  BY <1>2 DEF Sleep
<1>3. ASSUME NEW m \in Says[t], Log(t, m)
      PROVE  WritersHaveTheMutex' /\ WaitersAreRepresented'
  <2>1. pc[t] = "work" /\ pc' = [pc EXCEPT ![t] = "take"] /\ UNCHANGED mutex
    BY <1>3 DEF Log
  <2>. QED BY <2>1
<1>4. CASE Take(t)
  BY <1>4 DEF Take
<1>5. CASE Write(t)
  BY <1>5 DEF Write
<1>6. CASE Give(t)
  <2>1. mutex' = NoOne /\ pc[t] = "write" /\ mutex = t
    BY <1>6 DEF Give
  <2>2. CASE Blocked = {} /\ pc' = [pc EXCEPT ![t] = "work"]
    BY <2>1, <2>2 DEF Blocked
  <2>3. ASSUME NEW u \in Blocked, \A v \in Blocked : Priority[v] <= Priority[u],
               pc' = [pc EXCEPT ![t] = "work", ![u] = "take"]
        PROVE  WritersHaveTheMutex' /\ WaitersAreRepresented'
    BY <2>1, <2>3 DEF Blocked
  <2>. QED BY <1>6, <2>2, <2>3 DEF Give
<1>. QED BY <1>1, <1>2, <1>3, <1>4, <1>5, <1>6 DEF Step

LEMMA NextConsoleInv == ConsoleInv /\ [Next]_vars => ConsoleInv'
<1> SUFFICES ASSUME ConsoleInv, [Next]_vars PROVE ConsoleInv'
  OBVIOUS
<1>1. ASSUME NEW t \in Tasks, Wake(t) \/ Step(t) PROVE ConsoleInv'
  BY <1>1, StepTypeOK, StepOwner DEF ConsoleInv
<1>2. ASSUME NEW fault \in Faults, Fault(fault) PROVE ConsoleInv'
  BY <1>2 DEF Fault, ConsoleInv, TypeOK, WritersHaveTheMutex, WaitersAreRepresented
<1>3. CASE Report
  <2>1. told \in 0 .. 3 /\ told' = told + 1 /\ UNCHANGED <<pc, msg, done, mutex, report>>
    <3>1. Len(ReportOf(report)) = 4
      BY DEF ReportOf
    <3>. QED BY <1>3, <3>1 DEF Report, ConsoleInv, TypeOK
  <2>. QED BY <2>1 DEF ConsoleInv, TypeOK, WritersHaveTheMutex, WaitersAreRepresented
<1>4. CASE SystemReset
  BY <1>4, SilenceIsAMessage, ConsoleAssumption
  DEF SystemReset, Started, ConsoleInv, TypeOK, WritersHaveTheMutex, WaitersAreRepresented
<1>5. CASE UNCHANGED vars
  BY <1>5 DEF vars, ConsoleInv, TypeOK, WritersHaveTheMutex, WaitersAreRepresented
<1>. QED BY <1>1, <1>2, <1>3, <1>4, <1>5 DEF Next

-----------------------------------------------------------------------------
(***************************************************************************)
(* The lines.                                                              *)
(***************************************************************************)

\* The characters of a format, and what printFmt writes.
Alphabet == {"c", "%", "d"}
Pieces == Alphabet \cup {Argument[j] : j \in 1 .. 4}

\* The characters of an item, and those of a format, item by item.
CharsOf(item) ==
  CASE item = "c"  -> <<"c">>
    [] item = "%%" -> <<"%", "%">>
    [] item = "%d" -> <<"%", "d">>
    [] item = "%"  -> <<"%">>

LEMMA CharsWalk ==
  ASSUME NEW format \in Seq(Items)
  PROVE  \E from \in [0 .. Len(format) -> Seq(Alphabet)] :
           /\ from[0] = <<>> /\ Chars(format) = from[Len(format)]
           /\ \A k \in 1 .. Len(format) : from[k] = from[k - 1] \o CharsOf(format[k])
<1> DEFINE S == Seq(Alphabet)
           item(k) == CharsOf(format[k])
           Steps(from) == from = [k \in 0 .. Len(format) |->
                                    IF k = 0 THEN <<>> ELSE from[k - 1] \o item(k)]
           from == CHOOSE f : Steps(f)
<1>1. Len(format) \in Nat /\ \A k \in 1 .. Len(format) : item(k) \in S
  <2>1. \A k \in 1 .. Len(format) : format[k] \in Items
    OBVIOUS
  <2>2. {<<"c">>, <<"%", "%">>, <<"%", "d">>, <<"%">>} \subseteq S
    BY DEF Alphabet
  <2> QED BY <2>1, <2>2 DEF Items, CharsOf
<1>2. <<>> \in S /\ \A s, t \in S : s \o t \in S
  OBVIOUS
<1> HIDE DEF S, item
<1> DEFINE step == [k \in 1 .. Len(format) |-> [s \in S |-> s \o item(k)]]
<1>3. step \in [1 .. Len(format) -> [S -> S]]
  BY <1>1, <1>2
<1>4. PICK f \in [0 .. Len(format) -> S] :
        f[0] = <<>> /\ \A k \in 1 .. Len(format) : f[k] = step[k][f[k - 1]]
  <2> DEFINE N == Len(format)
             first == <<>>
  <2>1. N \in Nat /\ first \in S /\ step \in [1 .. N -> [S -> S]]
    BY <1>1, <1>2, <1>3
  <2> HIDE DEF step, N, first
  <2>2. \E f \in [0 .. N -> S] : Walks(f, N, first, step)
    BY <2>1, Recursion
  <2> QED BY <2>2 DEF N, first, Walks
<1>5. ASSUME NEW k \in 1 .. Len(format) PROVE f[k] = f[k - 1] \o item(k)
  <2>1. f[k - 1] \in S
    BY <1>1, <1>4
  <2> QED BY <1>4, <2>1
<1>6. Steps(f)
  BY <1>1, <1>4, <1>5
<1>7. Steps(from)
  <2> HIDE DEF Steps
  <2> QED BY <1>6
<1> HIDE DEF from
<1> DEFINE Typed == {k \in Nat : k <= Len(format) => from[k] \in S}
<1>8. 0 \in Typed
  BY <1>1, <1>2, <1>7
<1>9. ASSUME NEW k \in Typed PROVE k + 1 \in Typed
  <2> SUFFICES ASSUME k + 1 <= Len(format) PROVE from[k + 1] \in S
    OBVIOUS
  <2>1. k + 1 \in 1 .. Len(format) /\ (k + 1) - 1 = k /\ from[k] \in S
    BY <1>1
  <2>2. \A n \in 0 .. Len(format) : from[n] = IF n = 0 THEN <<>> ELSE from[n - 1] \o item(n)
    BY <1>7
  <2>3. k + 1 # 0 /\ k + 1 \in 0 .. Len(format)
    BY <1>1
  <2>4. from[k + 1] = from[k] \o item(k + 1)
    BY <2>1, <2>2, <2>3
  <2> QED BY <1>1, <1>2, <2>1, <2>4
<1>10. Typed = Nat
  <2>1. Typed \in SUBSET Nat
    OBVIOUS
  <2> HIDE DEF Typed
  <2> QED BY <1>8, <1>9, <2>1, Induction
<1>11. from \in [0 .. Len(format) -> S]
  <2>1. ASSUME NEW k \in 0 .. Len(format) PROVE from[k] \in S
    BY <1>1, <1>10
  <2> QED BY <1>7, <2>1
<1>12. Chars(format) = from[Len(format)]
  BY DEF Chars, from, Steps, item, CharsOf
<1>13. from[0] = <<>> /\ \A k \in 1 .. Len(format) : from[k] = from[k - 1] \o item(k)
  <2>1. \A k \in 0 .. Len(format) : from[k] = IF k = 0 THEN <<>> ELSE from[k - 1] \o item(k)
    BY <1>7
  <2>2. 0 \in 0 .. Len(format) /\ \A k \in 1 .. Len(format) : k \in 0 .. Len(format) /\ k # 0
    BY <1>1
  <2> HIDE DEF Steps
  <2> QED BY <2>1, <2>2
<1> QED BY <1>11, <1>12, <1>13 DEF S, item

\* The characters of a format are characters.
LEMMA CharsType ==
  ASSUME NEW format \in Seq(Items)
  PROVE  Chars(format) \in Seq(Alphabet)
<1>1. PICK from \in [0 .. Len(format) -> Seq(Alphabet)] : Chars(format) = from[Len(format)]
  BY CharsWalk
<1>2. Len(format) \in 0 .. Len(format)
  OBVIOUS
<1> QED BY <1>1, <1>2

\* What is printed from a character on, given what is from the next one on and from the
\* one after it, for every argument.
PrintedFrom(fmt, n, i, j, a, b) ==
  CASE i > Len(fmt) -> <<>>
    [] i <= Len(fmt) /\ j > n -> SubSeq(fmt, i, Len(fmt))
    [] j <= n /\ i < Len(fmt) /\ fmt[i] = "%" ->
         IF fmt[i + 1] = "%" THEN <<"%">> \o b[j]
         ELSE <<Argument[j]>> \o b[j + 1]
    [] OTHER -> <<fmt[i]>> \o a[j]

\* What is printed are characters of the format and arguments: printFmt goes on from each
\* of its places to the end.
PrintedWalks(fmt, n, from) ==
  /\ \A i \in 1 .. Len(fmt) : \A j \in 1 .. n + 1 :
       from[i][j] = PrintedFrom(fmt, n, i, j, from[i + 1], from[i + 2])
  /\ \A j \in 1 .. n + 1 : from[Len(fmt) + 1][j] = <<>>

LEMMA PrintedWalk ==
  ASSUME NEW fmt \in Seq(Alphabet), NEW n \in 0 .. 4
  PROVE  \E from \in [1 .. Len(fmt) + 2 -> [1 .. n + 1 -> Seq(Pieces)]] :
           Printed(fmt, n) = from[1][1] /\ PrintedWalks(fmt, n, from)
<1> DEFINE S == Seq(Pieces)
           L == Len(fmt)
           piece(i, j, a, b) == PrintedFrom(fmt, n, i, j, a, b)
           Rows == [1 .. n + 1 -> S]
           Steps(from) ==
             from = [i \in 1 .. L + 2 |-> [j \in 1 .. n + 1 |->
                       piece(i, j, from[i + 1], from[i + 2])]]
           from == CHOOSE f : Steps(f)
<1>1. /\ L \in Nat /\ n \in Nat
      /\ \A i \in 1 .. L : <<fmt[i]>> \in S /\ SubSeq(fmt, i, L) \in S
      /\ \A j \in 1 .. n : <<Argument[j]>> \in S
      /\ <<"%">> \in S /\ <<>> \in S
  <2>1. L \in Nat /\ n \in Nat
    OBVIOUS
  <2>2. ASSUME NEW i \in 1 .. L PROVE <<fmt[i]>> \in S /\ SubSeq(fmt, i, L) \in S
    <3>1. fmt[i] \in Alphabet /\ fmt \in S
      BY DEF Pieces
    <3> QED BY <3>1, <2>1 DEF Pieces
  <2>3. ASSUME NEW j \in 1 .. n PROVE <<Argument[j]>> \in S
    <3>1. Argument[j] \in Pieces
      BY DEF Pieces
    <3> QED BY <3>1
  <2>4. <<"%">> \in S /\ <<>> \in S
    BY DEF Pieces, Alphabet
  <2> QED BY <2>1, <2>2, <2>3, <2>4
<1>2. \A s, t \in S : s \o t \in S
  OBVIOUS
<1> HIDE DEF S
<1>3. ASSUME NEW i \in 1 .. L + 2, NEW j \in 1 .. n + 1, NEW a \in Rows, NEW b \in Rows
      PROVE  piece(i, j, a, b) \in S
  <2>0. i \in Nat /\ j \in Nat /\ a[j] \in S /\ b[j] \in S /\ (j <= n => b[j + 1] \in S)
    BY <1>1
  <2>1. CASE i > L
    <3>1. piece(i, j, a, b) = <<>>
      BY <2>1 DEF PrintedFrom
    <3> QED BY <3>1, <1>1
  <2>2. CASE i <= L /\ j > n
    <3>1. piece(i, j, a, b) = SubSeq(fmt, i, L)
      BY <2>2, <2>0, <1>1 DEF PrintedFrom
    <3>2. i \in 1 .. L
      BY <2>2
    <3> HIDE DEF piece, L
    <3> QED BY <3>1, <3>2, <1>1
  <2>3. CASE j <= n /\ i < L /\ fmt[i] = "%"
    <3>1. piece(i, j, a, b) = IF fmt[i + 1] = "%" THEN <<"%">> \o b[j]
                              ELSE <<Argument[j]>> \o b[j + 1]
      BY <2>3, <2>0, <1>1 DEF PrintedFrom
    <3>2. <<"%">> \o b[j] \in S /\ <<Argument[j]>> \o b[j + 1] \in S
      BY <2>3, <2>0, <1>1, <1>2
    <3> QED BY <3>1, <3>2
  <2>4. CASE i <= L /\ j <= n /\ ~(i < L /\ fmt[i] = "%")
    <3>1. piece(i, j, a, b) = <<fmt[i]>> \o a[j]
      BY <2>4, <2>0, <1>1 DEF PrintedFrom
    <3> QED BY <3>1, <2>4, <2>0, <1>1, <1>2
  <2> QED BY <1>1, <2>0, <2>1, <2>2, <2>3, <2>4
<1>4. ASSUME NEW i \in 1 .. L + 2, i > L, NEW j, NEW a, NEW b PROVE piece(i, j, a, b) = <<>>
  BY <1>4 DEF PrintedFrom
<1> HIDE DEF piece
<1> DEFINE row(i, a, b) == [j \in 1 .. n + 1 |-> piece(i, j, a, b)]
           none == [j \in 1 .. n + 1 |-> <<>>]
           N == L + 1
           Pairs == Rows \X Rows
           first == <<none, none>>
           step == [k \in 1 .. N |-> [r \in Pairs |-> <<row(L + 2 - k, r[1], r[2]), r[1]>>]]
<1>5. \A i \in 1 .. L + 2 : \A a, b \in Rows : row(i, a, b) \in Rows
  BY <1>3
<1>6. N \in Nat /\ first \in Pairs /\ step \in [1 .. N -> [Pairs -> Pairs]]
  <2>1. none \in Rows
    BY <1>1
  <2>2. ASSUME NEW k \in 1 .. N, NEW r \in Pairs
        PROVE  <<row(L + 2 - k, r[1], r[2]), r[1]>> \in Pairs
    <3>1. L + 2 - k \in 1 .. L + 2 /\ r[1] \in Rows /\ r[2] \in Rows
      BY <1>1
    <3> HIDE DEF row, Rows
    <3> QED BY <3>1, <1>5
  <2> HIDE DEF row, Rows, none
  <2> QED BY <1>1, <2>1, <2>2
<1>7. PICK F \in [0 .. N -> Pairs] : Walks(F, N, first, step)
  <2> HIDE DEF N, first, step, Pairs
  <2> QED BY <1>6, Recursion
<1>8. /\ F[0] = <<none, none>>
      /\ \A k \in 1 .. N : F[k] = <<row(L + 2 - k, F[k - 1][1], F[k - 1][2]), F[k - 1][1]>>
  <2>1. ASSUME NEW k \in 1 .. N PROVE k - 1 \in 0 .. N
    BY <1>6
  <2> HIDE DEF N, none, row, Pairs
  <2> QED BY <1>7, <2>1 DEF Walks
<1> DEFINE printed == [i \in 1 .. L + 2 |-> F[L + 2 - i][1]]
<1>9. ASSUME NEW i \in 1 .. L PROVE printed[i] = row(i, printed[i + 1], printed[i + 2])
  <2> DEFINE k == L + 2 - i
  <2>1. /\ k \in 1 .. N /\ k - 1 \in 1 .. N /\ i = L + 2 - k
        /\ i + 1 \in 1 .. L + 2 /\ k - 1 = L + 2 - (i + 1)
        /\ i + 2 \in 1 .. L + 2 /\ (k - 1) - 1 = L + 2 - (i + 2)
    BY <1>1
  <2>2. printed[i] = F[k][1] /\ printed[i + 1] = F[k - 1][1] /\ printed[i + 2] = F[(k - 1) - 1][1]
    BY <2>1
  <2> HIDE DEF printed, row
  <2> HIDE DEF k, none
  <2>3. F[k - 1][2] = F[(k - 1) - 1][1]
    <3>1. F[k - 1] = <<row(L + 2 - (k - 1), F[(k - 1) - 1][1], F[(k - 1) - 1][2]),
                       F[(k - 1) - 1][1]>>
      <4> HIDE DEF N, L
      <4> QED BY <1>8, <2>1
    <3> QED BY <3>1
  <2>4. F[k][1] = row(i, F[k - 1][1], F[k - 1][2])
    BY <1>8, <2>1
  <2> QED BY <2>2, <2>3, <2>4
<1>10. ASSUME NEW i \in L + 1 .. L + 2 PROVE printed[i] = row(i, printed[i + 1], printed[i + 2])
  <2>1. i \in 1 .. L + 2 /\ i > L
    BY <1>1
  <2>2. row(i, printed[i + 1], printed[i + 2]) = none
    BY <1>4, <2>1
  <2>3. printed[i] = none
    <3>1. CASE i = L + 2
      BY <1>1, <1>8, <3>1
    <3>2. CASE i = L + 1
      <4>1. 1 \in 1 .. N /\ L + 2 - i = 1
        BY <1>1, <3>2
      <4>2. printed[i] = F[1][1]
        BY <2>1, <4>1
      <4>3. F[1][1] = row(L + 2 - 1, F[1 - 1][1], F[1 - 1][2])
        <5> HIDE DEF row
        <5> QED BY <1>8, <4>1
      <4>4. row(L + 2 - 1, F[1 - 1][1], F[1 - 1][2]) = none
        BY <1>1, <1>4
      <4> QED BY <4>2, <4>3, <4>4
    <3> QED BY <2>1, <3>1, <3>2
  <2> QED BY <2>2, <2>3
<1>11. Steps(printed)
  <2>1. \A i \in 1 .. L + 2 : printed[i] = row(i, printed[i + 1], printed[i + 2])
    <3> HIDE DEF printed, row
    <3> QED BY <1>1, <1>9, <1>10
  <2> QED BY <2>1
<1>12. Steps(from)
  <2> HIDE DEF Steps
  <2> QED BY <1>11
<1> HIDE DEF from
<1>13. ASSUME NEW i \in 1 .. L + 2, i <= L => from[i + 1] \in Rows /\ from[i + 2] \in Rows
       PROVE  from[i] \in Rows
  <2>1. from[i] = row(i, from[i + 1], from[i + 2])
    BY <1>12
  <2>2. CASE i <= L
    <3> HIDE DEF row, Rows
    <3> QED BY <1>5, <1>13, <2>1, <2>2
  <2>3. CASE i > L
    <3>1. row(i, from[i + 1], from[i + 2]) = none
      BY <1>4, <2>3
    <3> QED BY <1>1, <2>1, <3>1
  <2> QED BY <1>1, <2>2, <2>3
<1> HIDE DEF Rows, Steps
<1> DEFINE Typed == {k \in Nat : \A i \in 1 .. L + 2 : i >= L + 2 - k => from[i] \in Rows}
<1>14. 0 \in Typed
  <2>1. ASSUME NEW i \in 1 .. L + 2, i >= L + 2 - 0 PROVE from[i] \in Rows
    BY <1>1, <1>13, <2>1
  <2> QED BY <2>1
<1>15. ASSUME NEW k \in Typed PROVE k + 1 \in Typed
  <2>1. ASSUME NEW i \in 1 .. L + 2, i >= L + 2 - (k + 1) PROVE from[i] \in Rows
    <3>1. CASE i >= L + 2 - k
      BY <3>1
    <3>2. CASE ~(i >= L + 2 - k)
      <4>1. i <= L => /\ i + 1 \in 1 .. L + 2 /\ i + 1 >= L + 2 - k
                      /\ i + 2 \in 1 .. L + 2 /\ i + 2 >= L + 2 - k
        BY <1>1, <2>1
      <4>2. i <= L => from[i + 1] \in Rows /\ from[i + 2] \in Rows
        BY <4>1
      <4> QED BY <4>2, <1>13
    <3> QED BY <3>1, <3>2
  <2> QED BY <2>1
<1>16. Typed = Nat
  <2>1. Typed \in SUBSET Nat
    OBVIOUS
  <2> HIDE DEF Typed
  <2> QED BY <1>14, <1>15, <2>1, Induction
<1>17. from \in [1 .. L + 2 -> Rows]
  <2>1. L + 1 \in Nat
    BY <1>1
  <2>2. L + 1 \in Typed
    <3> HIDE DEF Typed
    <3> QED BY <1>16, <2>1
  <2>3. ASSUME NEW i \in 1 .. L + 2 PROVE from[i] \in Rows
    BY <1>1, <2>2
  <2> QED BY <1>12, <2>3 DEF Steps
<1>18. /\ \A i \in 1 .. L : \A j \in 1 .. n + 1 : from[i][j] = piece(i, j, from[i + 1], from[i + 2])
       /\ \A j \in 1 .. n + 1 : from[L + 1][j] = <<>>
  <2>1. \A i \in 1 .. L + 2 : \A j \in 1 .. n + 1 :
          from[i][j] = piece(i, j, from[i + 1], from[i + 2])
    <3>1. \A i \in 1 .. L + 2 :
            from[i] = [j \in 1 .. n + 1 |-> piece(i, j, from[i + 1], from[i + 2])]
      BY <1>12 DEF Steps
    <3> QED BY <3>1
  <2>2. L + 1 \in 1 .. L + 2 /\ L + 1 > L /\ \A i \in 1 .. L : i \in 1 .. L + 2
    BY <1>1
  <2> HIDE DEF L
  <2>3. \A j \in 1 .. n + 1 : piece(L + 1, j, from[L + 1 + 1], from[L + 1 + 2]) = <<>>
    BY <1>4, <2>2
  <2> QED BY <2>1, <2>2, <2>3
<1>19. Printed(fmt, n) = from[1][1]
  BY DEF Printed, from, Steps, piece, PrintedFrom, L
<1> QED BY <1>17, <1>18, <1>19 DEF S, Rows, piece, PrintedWalks

LEMMA PrintedType ==
  ASSUME NEW fmt \in Seq(Alphabet), NEW n \in 0 .. 4
  PROVE  Printed(fmt, n) \in Seq(Pieces)
<1>1. PICK from \in [1 .. Len(fmt) + 2 -> [1 .. n + 1 -> Seq(Pieces)]] :
        Printed(fmt, n) = from[1][1]
  BY PrintedWalk
<1>2. 1 \in 1 .. Len(fmt) + 2 /\ 1 \in 1 .. n + 1
  OBVIOUS
<1> QED BY <1>1, <1>2

\* A line ends with the only end of a line in it.
LEMMA LineEnds ==
  ASSUME NEW t \in Tasks, NEW m \in Says[t]
  PROVE  /\ Line(t, m) \in Seq(Pieces \cup {"time", LevelName[m.level + 1], t, Newline})
         /\ Len(Line(t, m)) \in Nat \ {0}
         /\ \A k \in 1 .. Len(Line(t, m)) : Line(t, m)[k] = Newline <=> k = Len(Line(t, m))
<1> DEFINE text == Printed(Chars(m.format), Cardinality(Conversions(m.format)))
           level == LevelName[m.level + 1]
           Words == Pieces \cup {"time", level, t, Newline}
<1>1. text \in Seq(Pieces)
  <2>1. m.format \in Seq(Items)
    BY ConsoleAssumption DEF Message
  <2>2. Cardinality(Conversions(m.format)) \in 0 .. 4
    BY MessagesAssumption DEF Argument
  <2> QED BY <2>1, <2>2, CharsType, PrintedType
<1>2. Newline \notin Pieces
  <2>1. \A j \in 1 .. 4 : Argument[j] # Newline
    BY DEF Argument, Newline
  <2> QED BY <2>1 DEF Pieces, Alphabet, Newline
<1>3. "time" # Newline /\ level # Newline /\ t # Newline
  <2>1. m.level + 1 \in 1 .. 4
    BY ConsoleAssumption DEF Message, Levels
  <2> QED BY <2>1, MessagesAssumption DEF LevelName, Newline
<1> HIDE DEF text, level
<1>4. text \in Seq(Words) /\ <<"time", level, t>> \in Seq(Words) /\ <<Newline>> \in Seq(Words)
  BY <1>1
<1>5. \A k \in 1 .. Len(text) : text[k] # Newline
  BY <1>1, <1>2
<1> DEFINE line0 == <<"time", level, t>> \o text
<1>6. line0 \in Seq(Words) /\ \A k \in 1 .. Len(line0) : line0[k] # Newline
  BY <1>3, <1>4, <1>5
<1>7. Line(t, m) = line0 \o <<Newline>>
  BY DEF Line, text, level
<1> HIDE DEF line0, Words
<1>8. /\ line0 \o <<Newline>> \in Seq(Words)
      /\ Len(line0 \o <<Newline>>) = Len(line0) + 1 /\ Len(line0) \in Nat
      /\ \A k \in 1 .. Len(line0) + 1 :
           (line0 \o <<Newline>>)[k] = IF k <= Len(line0) THEN line0[k] ELSE Newline
  BY <1>4, <1>6
<1> QED BY <1>6, <1>7, <1>8 DEF level, Words

\* Who is logging logs a message of its own.
OwnMessages == \A t \in Tasks : pc[t] \in {"take", "blocked", "write"} => msg[t] \in Says[t]

\* Until a fault, the console's last line is what the owner of the mutex has written of
\* its line, and nothing while there is no owner.
LineSoFar ==
  report = NoFault =>
    /\ mutex = NoOne => line = <<>>
    /\ \A t \in Tasks : mutex = t =>
         \/ done[t] < Len(Line(t, msg[t])) /\ line = SubSeq(Line(t, msg[t]), 1, done[t])
         \/ done[t] = Len(Line(t, msg[t])) /\ line = <<>>

\* A report leaves no line begun.
ReportsEnd == (report = NoFault => told = 0) /\ (told = 4 => line = <<>>)

LinesInv == OwnMessages /\ LineSoFar /\ ReportsEnd /\ LinesAreWhole

LEMMA InitLinesInv == Init => LinesInv
BY ConsoleAssumption
DEF Init, LinesInv, OwnMessages, LineSoFar, ReportsEnd, LinesAreWhole, Nothing

LEMMA StepOwnMessages ==
  ASSUME ConsoleInv, OwnMessages, NEW t \in Tasks, Wake(t) \/ Step(t)
  PROVE  OwnMessages'
<1> USE DEF ConsoleInv, TypeOK, OwnMessages
<1>1. CASE Wake(t)
  BY <1>1 DEF Wake
<1>2. CASE Sleep(t)
  BY <1>2 DEF Sleep
<1>3. ASSUME NEW m \in Says[t], Log(t, m) PROVE OwnMessages'
  BY <1>3 DEF Log
<1>4. CASE Take(t)
  BY <1>4 DEF Take
<1>5. CASE Write(t)
  BY <1>5 DEF Write
<1>6. CASE Give(t)
  <2>1. \A u \in Tasks : u # t => msg'[u] = msg[u]
    BY <1>6 DEF Give
  <2>2. pc'[t] = "work" /\ \A u \in Tasks : pc'[u] = pc[u] \/ (pc[u] = "blocked" /\ u # t) \/ u = t
    BY <1>6 DEF Give, Blocked
  <2> QED BY <2>1, <2>2
<1> QED BY <1>1, <1>2, <1>3, <1>4, <1>5, <1>6 DEF Step

\* A task writes its line from its beginning to its end.
LEMMA WriteLines ==
  ASSUME ConsoleInv, LinesInv, NEW t \in Tasks, Write(t)
  PROVE  LineSoFar' /\ ReportsEnd' /\ LinesAreWhole'
<1> DEFINE w == Line(t, msg[t])
           d == done[t]
           piece == w[d + 1]
<1>1. /\ report = NoFault /\ UNCHANGED <<report, told, mutex, msg>>
      /\ mutex = t /\ d \in Nat /\ d < Len(w)
      /\ line' = IF piece = Newline THEN <<>> ELSE Append(line, piece)
      /\ ended' = IF piece = Newline THEN [by |-> t, msg |-> msg[t], text |-> line] ELSE ended
      /\ done'[t] = d + 1
  BY DEF Write, Runs, Onto, ConsoleInv, TypeOK, WritersHaveTheMutex
<1>2. msg[t] \in Says[t]
  BY DEF LinesInv, OwnMessages, Write
<1>3. line = SubSeq(w, 1, d)
  BY <1>1 DEF LinesInv, LineSoFar
<1> DEFINE Words == Pieces \cup {"time", LevelName[msg[t].level + 1], t, Newline}
<1>4. w \in Seq(Words) /\ \A k \in 1 .. Len(w) : w[k] = Newline <=> k = Len(w)
  BY <1>2, LineEnds
<1> HIDE DEF w, d, Words
<1>5. d + 1 \in 1 .. Len(w) /\ Len(w) \in Nat
  BY <1>1, <1>4
<1>6. Append(SubSeq(w, 1, d), piece) = SubSeq(w, 1, d + 1)
  BY <1>1, <1>4, <1>5
<1>7. CASE piece = Newline
  <2>1. d + 1 = Len(w)
    BY <1>4, <1>5, <1>7
  <2>2. line \o <<Newline>> = w
    BY <1>1, <1>3, <1>4, <1>5, <1>7, <2>1
  <2>3. LinesAreWhole'
    BY <1>1, <1>7, <2>2 DEF LinesAreWhole, w
  <2>4. LineSoFar'
    BY <1>1, <1>7, <2>1, ConsoleAssumption DEF LineSoFar, w
  <2>5. ReportsEnd'
    BY <1>1, <1>7 DEF LinesInv, ReportsEnd
  <2> QED BY <2>3, <2>4, <2>5
<1>8. CASE piece # Newline
  <2>1. d + 1 < Len(w)
    BY <1>4, <1>5, <1>8
  <2>2. line' = SubSeq(w, 1, d + 1)
    BY <1>1, <1>3, <1>6, <1>8
  <2>3. LineSoFar'
    BY <1>1, <2>1, <2>2, ConsoleAssumption DEF LineSoFar, w
  <2>4. LinesAreWhole'
    BY <1>1, <1>8 DEF LinesInv, LinesAreWhole
  <2>5. ReportsEnd'
    BY <1>1 DEF LinesInv, ReportsEnd
  <2> QED BY <2>3, <2>4, <2>5
<1> QED BY <1>7, <1>8

\* A step of a task keeps the lines whole.
LEMMA StepLines ==
  ASSUME ConsoleInv, LinesInv, NEW t \in Tasks, Wake(t) \/ Step(t)
  PROVE  LineSoFar' /\ ReportsEnd' /\ LinesAreWhole'
<1> USE ConsoleAssumption DEF ConsoleInv, TypeOK, WritersHaveTheMutex, LinesInv
<1>1. ASSUME UNCHANGED <<done, mutex, line, ended, report, told>>,
             \A u \in Tasks : mutex = u => msg'[u] = msg[u]
      PROVE  LineSoFar' /\ ReportsEnd' /\ LinesAreWhole'
  BY <1>1 DEF LineSoFar, ReportsEnd, LinesAreWhole
<1>2. CASE Wake(t) \/ Sleep(t)
  BY <1>1, <1>2 DEF Wake, Sleep
<1>3. ASSUME NEW m \in Says[t], Log(t, m) PROVE LineSoFar' /\ ReportsEnd' /\ LinesAreWhole'
  BY <1>1, <1>3 DEF Log
<1>4. CASE Take(t)
  <2>1. CASE mutex # NoOne
    BY <1>1, <1>4, <2>1 DEF Take
  <2>2. CASE mutex = NoOne
    <3>1. /\ mutex' = t /\ done'[t] = 0 /\ UNCHANGED <<msg, line, ended, report, told>>
          /\ report = NoFault /\ msg[t] \in Says[t]
      BY <1>4, <2>2 DEF Take, Runs, OwnMessages
    <3>2. line = <<>>
      BY <2>2, <3>1 DEF LineSoFar
    <3> DEFINE w == Line(t, msg[t])
               Words == Pieces \cup {"time", LevelName[msg[t].level + 1], t, Newline}
    <3>3. w \in Seq(Words) /\ Len(w) \in Nat \ {0}
      BY <3>1, LineEnds
    <3> HIDE DEF Words
    <3>4. 0 < Len(w) /\ SubSeq(w, 1, 0) = <<>>
      BY <3>3
    <3>5. LineSoFar'
      BY <3>1, <3>2, <3>4 DEF LineSoFar
    <3> QED BY <3>1, <3>5 DEF ReportsEnd, LinesAreWhole
  <2> QED BY <2>1, <2>2
<1>5. CASE Write(t)
  BY <1>5, WriteLines
<1>6. CASE Give(t)
  <2>1. /\ mutex = t /\ done[t] = Len(Line(t, msg[t])) /\ report = NoFault
        /\ mutex' = NoOne /\ ended' = Nothing /\ UNCHANGED <<line, report, told>>
    BY <1>6 DEF Give, Runs
  <2>2. line = <<>>
    <3> DEFINE N == Len(Line(t, msg[t]))
    <3>1. \/ done[t] < N /\ line = SubSeq(Line(t, msg[t]), 1, done[t])
          \/ done[t] = N /\ line = <<>>
      BY <2>1 DEF LineSoFar
    <3>2. done[t] \in Nat /\ done[t] = N
      BY <2>1
    <3> HIDE DEF N
    <3> QED BY <3>1, <3>2
  <2> QED BY <2>1, <2>2 DEF LineSoFar, ReportsEnd, LinesAreWhole, Nothing
<1> QED BY <1>2, <1>3, <1>4, <1>5, <1>6 DEF Step

LEMMA NextLinesInv == ConsoleInv /\ LinesInv /\ [Next]_vars => LinesInv'
<1> SUFFICES ASSUME ConsoleInv, LinesInv, [Next]_vars PROVE LinesInv'
  OBVIOUS
<1> USE DEF LinesInv
<1>1. ASSUME NEW t \in Tasks, Wake(t) \/ Step(t) PROVE LinesInv'
  BY <1>1, StepOwnMessages, StepLines
<1>2. ASSUME NEW fault \in Faults, Fault(fault) PROVE LinesInv'
  <2>1. /\ report' # NoFault /\ told' = 0 /\ UNCHANGED <<pc, msg, ended>>
    BY <1>2 DEF Fault, Faults, NoFault
  <2> QED BY <2>1 DEF OwnMessages, LineSoFar, ReportsEnd, LinesAreWhole
<1>3. CASE Report
  <2>1. ReportOf(report)[4] = Newline /\ Len(ReportOf(report)) = 4
    BY DEF ReportOf
  <2>2. /\ report # NoFault /\ told \in 0 .. 3 /\ told' = told + 1
        /\ (told = 3 => line' = <<>>) /\ UNCHANGED <<pc, msg, ended, report>>
    BY <1>3, <2>1 DEF Report, Onto, ConsoleInv, TypeOK
  <2> QED BY <2>2 DEF OwnMessages, LineSoFar, ReportsEnd, LinesAreWhole
<1>4. CASE SystemReset
  <2>1. Len(ReportOf(report)) = 4
    BY DEF ReportOf
  <2>2. told = 4
    BY <1>4, <2>1 DEF SystemReset
  <2> QED BY <1>4, <2>2, ConsoleAssumption
       DEF SystemReset, Started, OwnMessages, LineSoFar, ReportsEnd, LinesAreWhole, Nothing
<1>5. CASE UNCHANGED vars
  BY <1>5 DEF vars, OwnMessages, LineSoFar, ReportsEnd, LinesAreWhole
<1> QED BY <1>1, <1>2, <1>3, <1>4, <1>5 DEF Next

-----------------------------------------------------------------------------
(***************************************************************************)
(* The arguments.                                                          *)
(***************************************************************************)

\* Where an item ends among the characters of its format, and that its characters are
\* there.
LEMMA CharsPlaces ==
  ASSUME NEW format \in Seq(Items)
  PROVE  \E pos \in [0 .. Len(format) -> Nat] :
           /\ pos[0] = 0 /\ pos[Len(format)] = Len(Chars(format))
           /\ \A k \in 1 .. Len(format) :
                /\ pos[k] = pos[k - 1] + Len(CharsOf(format[k]))
                /\ pos[k] <= Len(Chars(format))
                /\ \A q \in 1 .. Len(CharsOf(format[k])) :
                     Chars(format)[pos[k - 1] + q] = CharsOf(format[k])[q]
<1> DEFINE N == Len(format)
           C == Chars(format)
<1>1. PICK from \in [0 .. N -> Seq(Alphabet)] :
        /\ from[0] = <<>> /\ C = from[N]
        /\ \A k \in 1 .. N : from[k] = from[k - 1] \o CharsOf(format[k])
  BY CharsWalk
<1>2. N \in Nat /\ C \in Seq(Alphabet) /\ \A k \in 1 .. N : CharsOf(format[k]) \in Seq(Alphabet)
  <2>1. \A k \in 1 .. N : format[k] \in Items
    OBVIOUS
  <2>2. {<<"c">>, <<"%", "%">>, <<"%", "d">>, <<"%">>} \subseteq Seq(Alphabet)
    BY DEF Alphabet
  <2>3. \A item \in Items : CharsOf(item) \in Seq(Alphabet)
    BY <2>2 DEF Items, CharsOf
  <2> QED BY <2>1, <2>3, CharsType
<1> HIDE DEF N, C
<1> DEFINE Prefix(k) == Len(from[k]) <= Len(C) /\ \A q \in 1 .. Len(from[k]) : C[q] = from[k][q]
           Good == {d \in Nat : d <= N => Prefix(N - d)}
<1>3. 0 \in Good
  BY <1>1, <1>2
<1>4. ASSUME NEW d \in Good PROVE d + 1 \in Good
  <2> SUFFICES ASSUME d + 1 <= N PROVE Prefix(N - (d + 1))
    OBVIOUS
  <2> DEFINE k == N - d
  <2>1. k \in 1 .. N /\ k \in 0 .. N /\ k - 1 \in 0 .. N /\ N - (d + 1) = k - 1 /\ Prefix(k)
    BY <1>2
  <2> HIDE DEF k
  <2>2. from[k] = from[k - 1] \o CharsOf(format[k]) /\ from[k - 1] \in Seq(Alphabet)
    BY <1>1, <2>1
  <2>3. /\ Len(from[k - 1]) \in Nat /\ Len(from[k - 1]) <= Len(from[k])
        /\ \A q \in 1 .. Len(from[k - 1]) : from[k][q] = from[k - 1][q]
    BY <1>2, <2>1, <2>2
  <2>4. Len(from[k]) \in Nat /\ Len(C) \in Nat
    BY <1>1, <1>2, <2>1
  <2> QED BY <2>1, <2>3, <2>4
<1>5. Good = Nat
  <2>1. Good \in SUBSET Nat
    OBVIOUS
  <2> HIDE DEF Good
  <2> QED BY <1>3, <1>4, <2>1, Induction
<1>6. ASSUME NEW k \in 0 .. N PROVE Prefix(k)
  <2>1. N - k \in Good /\ N - k <= N /\ N - (N - k) = k
    BY <1>2, <1>5
  <2> HIDE DEF Prefix
  <2> QED BY <2>1
<1> HIDE DEF Good
<1> DEFINE pos == [k \in 0 .. N |-> Len(from[k])]
<1>7. pos \in [0 .. N -> Nat] /\ pos[0] = 0 /\ pos[N] = Len(C)
  BY <1>1, <1>2
<1>8. ASSUME NEW k \in 1 .. N
      PROVE  /\ pos[k] = pos[k - 1] + Len(CharsOf(format[k]))
             /\ pos[k] <= Len(C)
             /\ \A q \in 1 .. Len(CharsOf(format[k])) :
                  C[pos[k - 1] + q] = CharsOf(format[k])[q]
  <2>1. k \in 0 .. N /\ k - 1 \in 0 .. N
    BY <1>2
  <2>2. /\ from[k] = from[k - 1] \o CharsOf(format[k])
        /\ from[k - 1] \in Seq(Alphabet) /\ CharsOf(format[k]) \in Seq(Alphabet)
    BY <1>1, <1>2, <2>1
  <2>3. pos[k] = Len(from[k]) /\ pos[k - 1] = Len(from[k - 1])
    BY <2>1
  <2>4. Prefix(k)
    BY <1>6, <2>1
  <2> HIDE DEF pos
  <2>5. PICK a \in Seq(Alphabet), b \in Seq(Alphabet) : a = from[k - 1] /\ b = CharsOf(format[k])
    BY <2>2
  <2>6. /\ from[k] = a \o b /\ pos[k] = Len(from[k]) /\ pos[k - 1] = Len(a)
        /\ Len(from[k]) <= Len(C) /\ \A q \in 1 .. Len(from[k]) : C[q] = from[k][q]
    BY <2>2, <2>3, <2>4, <2>5
  <2>7. /\ Len(a \o b) = Len(a) + Len(b)
        /\ \A q \in 1 .. Len(b) :
             Len(a) + q \in 1 .. Len(a) + Len(b) /\ (a \o b)[Len(a) + q] = b[q]
    OBVIOUS
  <2>8. /\ pos[k] = pos[k - 1] + Len(b) /\ pos[k] <= Len(C)
        /\ \A q \in 1 .. Len(b) : C[pos[k - 1] + q] = b[q]
    BY <2>6, <2>7
  <2> QED BY <2>5, <2>8
<1> QED BY <1>7, <1>8 DEF N, C

\* The arguments that a format has named up to an item.
Named(format, k) == Cardinality({i \in Conversions(format) : i <= k})

\* An item names one argument more if it is a conversion, none if not, and what comes
\* before the last conversion names fewer than all.
LEMMA NamedCounts ==
  ASSUME NEW format \in Seq(Items)
  PROVE  /\ Named(format, 0) = 0
         /\ Named(format, Len(format)) = Cardinality(Conversions(format))
         /\ Cardinality(Conversions(format)) \in Nat
         /\ \A k \in 0 .. Len(format) :
              /\ Named(format, k) \in 0 .. Cardinality(Conversions(format))
              /\ (\E i \in Conversions(format) : k < i) =>
                   Named(format, k) < Cardinality(Conversions(format))
         /\ \A k \in 1 .. Len(format) :
              Named(format, k) =
                Named(format, k - 1) + IF k \in Conversions(format) THEN 1 ELSE 0
<1> DEFINE N == Len(format)
           C == Conversions(format)
           Upto(k) == {i \in C : i <= k}
<1>1. N \in Nat /\ C \subseteq 1 .. N
  BY DEF Conversions
<1> HIDE DEF N, C
<1>2. IsFiniteSet(C) /\ Cardinality(C) \in Nat
  <2>1. IsFiniteSet(1 .. N)
    BY <1>1, FS_Interval
  <2>2. IsFiniteSet(C)
    BY <1>1, <2>1, FS_Subset
  <2> QED BY <2>2, FS_CardinalityType
<1>3. Upto(0) = {} /\ Upto(N) = C
  <2>1. \A i \in C : i \in Nat /\ 0 < i /\ i <= N
    BY <1>1
  <2> QED BY <2>1
<1>4. ASSUME NEW k \in 0 .. N
      PROVE  /\ Cardinality(Upto(k)) \in 0 .. Cardinality(C)
             /\ (\E i \in C : k < i) => Cardinality(Upto(k)) < Cardinality(C)
  <2>1. Upto(k) \in SUBSET C
    OBVIOUS
  <2>2. (\E i \in C : k < i) => Upto(k) # C
    BY <1>1
  <2> HIDE DEF Upto
  <2>3. IsFiniteSet(Upto(k)) /\ Cardinality(Upto(k)) \in Nat
    BY <1>2, <2>1, FS_Subset, FS_CardinalityType
  <2>4. /\ Cardinality(Upto(k)) <= Cardinality(C)
        /\ Cardinality(C) = Cardinality(Upto(k)) => C = Upto(k)
    BY <1>2, <2>1, FS_Subset
  <2> QED BY <1>2, <2>2, <2>3, <2>4
<1>5. ASSUME NEW k \in 1 .. N
      PROVE  Cardinality(Upto(k)) = Cardinality(Upto(k - 1)) + IF k \in C THEN 1 ELSE 0
  <2>1. /\ Upto(k) = IF k \in C THEN Upto(k - 1) \cup {k} ELSE Upto(k - 1)
        /\ k \notin Upto(k - 1) /\ Upto(k - 1) \in SUBSET C
    <3>1. \A i \in C : i \in Nat
      BY <1>1
    <3>2. k \in Nat /\ ~(k <= k - 1) /\ \A i \in C : i <= k <=> i <= k - 1 \/ i = k
      BY <1>1, <3>1
    <3> QED BY <3>2
  <2> HIDE DEF Upto
  <2>2. IsFiniteSet(Upto(k - 1)) /\ Cardinality(Upto(k - 1)) \in Nat
    BY <1>2, <2>1, FS_Subset, FS_CardinalityType
  <2>3. Cardinality(Upto(k - 1) \cup {k}) = Cardinality(Upto(k - 1)) + 1
    BY <2>1, <2>2, FS_AddElement
  <2> QED BY <2>1, <2>2, <2>3
<1>6. Cardinality(Upto(0)) = 0 /\ Cardinality(Upto(N)) = Cardinality(C)
  BY <1>3, FS_EmptySet
<1> QED BY <1>2, <1>4, <1>5, <1>6 DEF Named, N, C

\* The rest of a sequence is its first element and what follows that.
LEMMA RestFrom ==
  ASSUME NEW S, NEW s \in Seq(S), NEW k \in 1 .. Len(s)
  PROVE  /\ SubSeq(s, k, Len(s)) = <<s[k]>> \o SubSeq(s, k + 1, Len(s))
         /\ SubSeq(s, Len(s) + 1, Len(s)) = <<>>
<1>1. PICK n \in Nat : n = Len(s) /\ k \in 1 .. n /\ k + 1 \in 1 .. n + 1
  OBVIOUS
<1>2. SubSeq(s, n + 1, n) = <<>>
  BY <1>1
<1>3. SubSeq(s, k, n) = <<s[k]>> \o SubSeq(s, k + 1, n)
  <2> DEFINE a == SubSeq(s, k, n)
             b == SubSeq(s, k + 1, n)
  <2>1. /\ a \in Seq(S) /\ Len(a) = n - k + 1
        /\ \A q \in 1 .. n - k + 1 : a[q] = s[k + q - 1]
    BY <1>1
  <2>2. b \in Seq(S) /\ Len(b) = n - k /\ \A q \in 1 .. n - k : b[q] = s[k + q]
    BY <1>1
  <2>3. s[k] \in S
    OBVIOUS
  <2> HIDE DEF a, b
  <2>4. /\ <<s[k]>> \o b \in Seq(S) /\ Len(<<s[k]>> \o b) = n - k + 1
        /\ \A q \in 1 .. n - k + 1 : (<<s[k]>> \o b)[q] = IF q = 1 THEN s[k] ELSE b[q - 1]
    <3>1. PICK x \in S, t \in Seq(S) : x = s[k] /\ t = b /\ Len(t) = n - k
      BY <2>2, <2>3
    <3>2. /\ <<x>> \o t \in Seq(S) /\ Len(<<x>> \o t) = 1 + Len(t)
          /\ \A q \in 1 .. 1 + Len(t) : (<<x>> \o t)[q] = IF q = 1 THEN x ELSE t[q - 1]
      OBVIOUS
    <3>3. 1 + (n - k) = n - k + 1
      BY <1>1
    <3> QED BY <3>1, <3>2, <3>3
  <2>5. ASSUME NEW q \in 1 .. n - k + 1 PROVE (<<s[k]>> \o b)[q] = a[q]
    <3>1. CASE q = 1
      BY <1>1, <2>1, <2>4, <3>1
    <3>2. CASE q # 1
      <4>1. q - 1 \in 1 .. n - k /\ k + (q - 1) = k + q - 1
        BY <1>1, <3>2
      <4> QED BY <2>1, <2>2, <2>4, <3>2, <4>1
    <3> QED BY <3>1, <3>2
  <2>6. a = <<s[k]>> \o b
    <3>1. a \in Seq(S) /\ Len(a) = n - k + 1 /\ \A q \in 1 .. Len(a) : a[q] = (<<s[k]>> \o b)[q]
      BY <1>1, <2>1, <2>5
    <3> QED BY <2>4, <3>1, SeqEqual
  <2> QED BY <2>6 DEF a, b
<1> QED BY <1>1, <1>2, <1>3

\* A character goes out as it is, unless it begins an argument or is one of two percent
\* signs.
GoesOn(fmt, n, from) ==
  \A i \in 1 .. Len(fmt), j \in 1 .. n + 1 :
    /\ j > n \/ fmt[i] # "%" => from[i][j] = <<fmt[i]>> \o from[i + 1][j]
    /\ j <= n /\ i < Len(fmt) /\ fmt[i] = "%" =>
         from[i][j] = IF fmt[i + 1] = "%" THEN <<"%">> \o from[i + 2][j]
                      ELSE <<Argument[j]>> \o from[i + 2][j + 1]

LEMMA PrintedOn ==
  ASSUME NEW fmt \in Seq(Alphabet), NEW n \in Nat, NEW from, PrintedWalks(fmt, n, from)
  PROVE  GoesOn(fmt, n, from)
<1> SUFFICES ASSUME NEW i \in 1 .. Len(fmt), NEW j \in 1 .. n + 1
             PROVE  /\ j > n \/ fmt[i] # "%" => from[i][j] = <<fmt[i]>> \o from[i + 1][j]
                    /\ j <= n /\ i < Len(fmt) /\ fmt[i] = "%" =>
                         from[i][j] = IF fmt[i + 1] = "%" THEN <<"%">> \o from[i + 2][j]
                                      ELSE <<Argument[j]>> \o from[i + 2][j + 1]
  BY DEF GoesOn
<1> DEFINE L == Len(fmt)
<1>1. L \in Nat /\ i \in Nat /\ j \in Nat
  OBVIOUS
<1>2. ASSUME NEW k \in 1 .. L
      PROVE  /\ j > n => from[k][j] = SubSeq(fmt, k, L)
             /\ j <= n /\ fmt[k] # "%" => from[k][j] = <<fmt[k]>> \o from[k + 1][j]
             /\ j <= n /\ k < L /\ fmt[k] = "%" =>
                  from[k][j] = IF fmt[k + 1] = "%" THEN <<"%">> \o from[k + 2][j]
                               ELSE <<Argument[j]>> \o from[k + 2][j + 1]
  <2>1. from[k][j] = PrintedFrom(fmt, n, k, j, from[k + 1], from[k + 2])
    BY DEF PrintedWalks
  <2>2. ~(k > L) /\ k <= L /\ (j > n => ~(j <= n)) /\ (j <= n => ~(j > n))
    BY <1>1
  <2> HIDE DEF L
  <2> QED BY <2>1, <2>2, Zenon DEF PrintedFrom, L
<1>3. CASE j <= n
  BY <1>1, <1>2, <1>3
<1>4. CASE j > n
  <2>1. from[i][j] = SubSeq(fmt, i, L)
    BY <1>2, <1>4
  <2>2. CASE i = L
    <3>1. from[i + 1][j] = <<>>
      BY <2>2 DEF PrintedWalks
    <3>2. SubSeq(fmt, i, L) = <<fmt[i]>> \o <<>>
      BY <2>2, RestFrom
    <3> QED BY <1>1, <1>4, <2>1, <3>1, <3>2
  <2>3. CASE i < L
    <3>1. i + 1 \in 1 .. L
      BY <1>1, <2>3
    <3>2. from[i + 1][j] = SubSeq(fmt, i + 1, L)
      BY <1>2, <1>4, <3>1
    <3>3. SubSeq(fmt, i, L) = <<fmt[i]>> \o SubSeq(fmt, i + 1, L)
      BY RestFrom
    <3> QED BY <1>1, <1>4, <2>1, <3>2, <3>3
  <2> QED BY <1>1, <2>2, <2>3
<1> QED BY <1>1, <1>3, <1>4

\* What the items of a regular format ask for.
LEMMA RenderedItems ==
  ASSUME NEW format \in Seq(Items), Regular(format), Cardinality(Conversions(format)) \in 0 .. 4
  PROVE  /\ Rendered(format) \in Seq(Pieces) /\ Len(Rendered(format)) = Len(format)
         /\ \A k \in 1 .. Len(format) :
              /\ format[k] \in {"c", "%%", "%d"}
              /\ format[k] = "c" => Rendered(format)[k] = "c"
              /\ format[k] = "%%" => Rendered(format)[k] = "%"
              /\ format[k] = "%d" => Rendered(format)[k] = Argument[Named(format, k)]
<1> DEFINE N == Len(format)
           item(k) == CASE format[k] = "c"  -> "c"
                        [] format[k] = "%%" -> "%"
                        [] format[k] = "%d" -> Argument[Named(format, k)]
<1>1. N \in Nat /\ DOMAIN format = 1 .. N
  OBVIOUS
<1>2. Rendered(format) = [k \in DOMAIN format |-> item(k)]
  BY Zenon DEF Rendered, Named
<1>3. ASSUME NEW k \in 1 .. N
      PROVE  /\ format[k] \in {"c", "%%", "%d"}
             /\ format[k] = "%d" => Named(format, k) \in 1 .. 4
  <2>1. format[k] \in {"c", "%%", "%d"}
    BY DEF Regular, Items
  <2>2. CASE format[k] = "%d"
    <3>1. k \in Conversions(format) /\ k \in 0 .. N /\ k - 1 \in 0 .. N
      BY <1>1, <2>2 DEF Conversions
    <3> DEFINE n == Cardinality(Conversions(format))
    <3>2. /\ Named(format, k) = Named(format, k - 1) + 1
          /\ Named(format, k) \in 0 .. n /\ Named(format, k - 1) \in 0 .. n
      BY <3>1, NamedCounts
    <3>3. n \in 0 .. 4 /\ \A x, y \in 0 .. n : x = y + 1 => x \in 1 .. 4
      OBVIOUS
    <3> QED BY <2>1, <3>2, <3>3
  <2> QED BY <2>1, <2>2
<1>4. ASSUME NEW k \in 1 .. N
      PROVE  /\ format[k] = "c" => item(k) = "c"
             /\ format[k] = "%%" => item(k) = "%"
             /\ format[k] = "%d" => item(k) = Argument[Named(format, k)]
  OBVIOUS
<1> HIDE DEF item, N
<1>5. \A k \in 1 .. N : item(k) \in Pieces
  BY <1>3, <1>4 DEF Pieces, Alphabet
<1>6. Rendered(format) \in [1 .. N -> Pieces] /\ \A k \in 1 .. N : Rendered(format)[k] = item(k)
  BY <1>1, <1>2, <1>5
<1>7. Rendered(format) \in Seq(Pieces) /\ Len(Rendered(format)) = N
  BY <1>1, <1>6
<1> QED BY <1>3, <1>4, <1>6, <1>7 DEF N

\* What printFmt writes for a regular format and as many arguments as it names is what
\* its items ask for: from where an item begins, with the arguments not yet named, it
\* writes the rest.
LEMMA PrintedIsRendered ==
  ASSUME NEW format \in Seq(Items), Regular(format), Cardinality(Conversions(format)) \in 0 .. 4
  PROVE  Printed(Chars(format), Cardinality(Conversions(format))) = Rendered(format)
<1> DEFINE N == Len(format)
           C == Chars(format)
           L == Len(C)
           R == Rendered(format)
<1>1. PICK n \in 0 .. 4 : n = Cardinality(Conversions(format))
  OBVIOUS
<1>2. N \in Nat /\ C \in Seq(Alphabet) /\ L \in Nat /\ n \in Nat
  BY CharsType
<1>3. PICK pos \in [0 .. N -> Nat] :
        /\ pos[0] = 0 /\ pos[N] = L
        /\ \A k \in 1 .. N :
             /\ pos[k] = pos[k - 1] + Len(CharsOf(format[k]))
             /\ pos[k] <= L
             /\ \A q \in 1 .. Len(CharsOf(format[k])) :
                  C[pos[k - 1] + q] = CharsOf(format[k])[q]
  BY CharsPlaces
<1>4. PICK from \in [1 .. L + 2 -> [1 .. n + 1 -> Seq(Pieces)]] :
        Printed(C, n) = from[1][1] /\ PrintedWalks(C, n, from)
  BY <1>2, PrintedWalk
<1>5. PICK cnt \in [0 .. N -> 0 .. n] :
        /\ cnt[0] = 0 /\ cnt[N] = n /\ \A k \in 0 .. N : cnt[k] = Named(format, k)
        /\ \A k \in 1 .. N :
             /\ cnt[k] = cnt[k - 1] + IF format[k] = "%d" THEN 1 ELSE 0
             /\ format[k] = "%%" => cnt[k] < n
  <2>1. \A k \in 1 .. N :
          /\ format[k] = "%%" => \E i \in Conversions(format) : k < i
          /\ k \in Conversions(format) <=> format[k] = "%d"
    BY DEF Regular, Conversions, Items
  <2>2. /\ \A k \in 1 .. N : k \in 0 .. N /\ k - 1 \in 0 .. N
        /\ 0 \in 0 .. N /\ N \in 0 .. N
    BY <1>2
  <2> DEFINE cnt == [k \in 0 .. N |-> Named(format, k)]
  <2>3. /\ Named(format, 0) = 0 /\ Named(format, N) = n
        /\ \A k \in 0 .. N : /\ Named(format, k) \in 0 .. n
                             /\ (\E i \in Conversions(format) : k < i) => Named(format, k) < n
        /\ \A k \in 1 .. N : Named(format, k) = Named(format, k - 1)
                                                  + IF k \in Conversions(format) THEN 1 ELSE 0
    BY <1>1, NamedCounts
  <2> HIDE DEF N
  <2>4. cnt \in [0 .. N -> 0 .. n] /\ \A k \in 0 .. N : cnt[k] = Named(format, k)
    BY <2>3
  <2> HIDE DEF cnt
  <2>5. cnt[0] = 0 /\ cnt[N] = n
    BY <2>2, <2>3, <2>4
  <2>6. ASSUME NEW k \in 1 .. N
        PROVE  /\ cnt[k] = cnt[k - 1] + IF format[k] = "%d" THEN 1 ELSE 0
               /\ format[k] = "%%" => cnt[k] < n
    <3>1. cnt[k] = Named(format, k) /\ cnt[k - 1] = Named(format, k - 1)
      BY <2>2, <2>4
    <3> QED BY <2>1, <2>2, <2>3, <3>1
  <2> QED BY <2>4, <2>5, <2>6
<1>6. /\ R \in Seq(Pieces) /\ Len(R) = N
      /\ \A k \in 1 .. N :
           /\ format[k] \in {"c", "%%", "%d"}
           /\ format[k] = "c" => R[k] = "c"
           /\ format[k] = "%%" => R[k] = "%"
           /\ format[k] = "%d" => R[k] = Argument[cnt[k]]
  <2>1. \A k \in 1 .. N : k \in 0 .. N
    BY <1>2
  <2> QED BY <1>5, <2>1, RenderedItems
<1> HIDE DEF N, C, R
<1> HIDE DEF L
<1>7. ASSUME NEW k \in 1 .. N
      PROVE  from[pos[k - 1] + 1][cnt[k - 1] + 1] = <<R[k]>> \o from[pos[k] + 1][cnt[k] + 1]
  <2>1. pos[k - 1] \in Nat /\ pos[k] \in Nat /\ cnt[k - 1] \in 0 .. n /\ cnt[k] \in 0 .. n
    <3>1. k \in 0 .. N /\ k - 1 \in 0 .. N
      BY <1>2
    <3> QED BY <3>1
  <2>2. PICK i \in Nat : i = pos[k - 1] + 1
    BY <2>1
  <2>3. PICK j \in 1 .. n + 1 : j = cnt[k - 1] + 1
    BY <1>2, <2>1
  <2>4. i \in 1 .. L =>
          /\ C[i] # "%" => from[i][j] = <<C[i]>> \o from[i + 1][j]
          /\ j <= n /\ i < L /\ C[i] = "%" =>
               from[i][j] = IF C[i + 1] = "%" THEN <<"%">> \o from[i + 2][j]
                            ELSE <<Argument[j]>> \o from[i + 2][j + 1]
    <3>1. GoesOn(C, n, from)
      BY <1>2, <1>4, PrintedOn
    <3> QED BY <3>1 DEF L, GoesOn
  <2>5. CASE format[k] = "c"
    <3>1. Len(CharsOf(format[k])) = 1 /\ CharsOf(format[k])[1] = "c"
      BY <2>5 DEF CharsOf
    <3>2. pos[k] = pos[k - 1] + 1 /\ pos[k] <= L /\ C[pos[k - 1] + 1] = "c"
      <4>1. 1 \in 1 .. 1
        OBVIOUS
      <4> QED BY <1>3, <3>1, <4>1
    <3>3. pos[k] = i /\ i \in 1 .. L /\ C[i] = "c"
      BY <1>2, <2>1, <2>2, <3>2
    <3>4. cnt[k] = cnt[k - 1] /\ R[k] = "c"
      <4>1. cnt[k] = cnt[k - 1] + 0
        BY <1>5, <2>5
      <4>2. R[k] = "c"
        BY <1>6, <2>5
      <4> QED BY <2>1, <4>1, <4>2
    <3>5. from[i][j] = <<"c">> \o from[i + 1][j]
      BY <2>4, <3>3
    <3> QED BY <2>2, <2>3, <3>3, <3>4, <3>5
  <2>6. CASE format[k] = "%d"
    <3>1. /\ Len(CharsOf(format[k])) = 2
          /\ CharsOf(format[k])[1] = "%" /\ CharsOf(format[k])[2] = "d"
      BY <2>6 DEF CharsOf
    <3>2. /\ pos[k] = pos[k - 1] + 2 /\ pos[k] <= L
          /\ C[pos[k - 1] + 1] = "%" /\ C[pos[k - 1] + 2] = "d"
      <4>1. 1 \in 1 .. 2 /\ 2 \in 1 .. 2
        OBVIOUS
      <4> QED BY <1>3, <3>1, <4>1
    <3>3. pos[k] + 1 = i + 2 /\ i \in 1 .. L /\ i < L
      <4>1. PICK x \in Nat, y \in Nat : x = pos[k - 1] /\ y = pos[k]
        BY <2>1
      <4>2. y = x + 2 /\ y <= L /\ i = x + 1
        BY <2>2, <3>2, <4>1
      <4>3. y + 1 = i + 2 /\ i \in 1 .. L /\ i < L
        BY <1>2, <4>2
      <4> QED BY <4>1, <4>3
    <3>4. cnt[k] = cnt[k - 1] + 1 /\ R[k] = Argument[cnt[k]]
      BY <1>5, <1>6, <2>6
    <3>5. cnt[k] = j /\ j <= n
      BY <1>2, <2>1, <2>3, <3>4
    <3>6. C[i] = "%" /\ C[i + 1] = "d"
      <4>1. pos[k - 1] + 2 = i + 1
        BY <2>1, <2>2
      <4> QED BY <2>2, <3>2, <4>1
    <3>7. from[i][j] = <<Argument[j]>> \o from[i + 2][j + 1]
      BY <2>4, <3>3, <3>5, <3>6
    <3> QED BY <2>2, <2>3, <3>3, <3>4, <3>5, <3>7
  <2>7. CASE format[k] = "%%"
    <3>1. /\ Len(CharsOf(format[k])) = 2
          /\ CharsOf(format[k])[1] = "%" /\ CharsOf(format[k])[2] = "%"
      BY <2>7 DEF CharsOf
    <3>2. /\ pos[k] = pos[k - 1] + 2 /\ pos[k] <= L
          /\ C[pos[k - 1] + 1] = "%" /\ C[pos[k - 1] + 2] = "%"
      <4>1. 1 \in 1 .. 2 /\ 2 \in 1 .. 2
        OBVIOUS
      <4> QED BY <1>3, <3>1, <4>1
    <3>3. pos[k] + 1 = i + 2 /\ i \in 1 .. L /\ i < L
      <4>1. PICK x \in Nat, y \in Nat : x = pos[k - 1] /\ y = pos[k]
        BY <2>1
      <4>2. y = x + 2 /\ y <= L /\ i = x + 1
        BY <2>2, <3>2, <4>1
      <4>3. y + 1 = i + 2 /\ i \in 1 .. L /\ i < L
        BY <1>2, <4>2
      <4> QED BY <4>1, <4>3
    <3>4. cnt[k] = cnt[k - 1] /\ cnt[k] < n /\ R[k] = "%"
      <4>1. cnt[k] = cnt[k - 1] + 0 /\ cnt[k] < n
        BY <1>5, <2>7
      <4>2. R[k] = "%"
        BY <1>6, <2>7
      <4> QED BY <2>1, <4>1, <4>2
    <3>5. j <= n /\ cnt[k] + 1 = j
      BY <1>2, <2>1, <2>3, <3>4
    <3>6. C[i] = "%" /\ C[i + 1] = "%"
      <4>1. pos[k - 1] + 2 = i + 1
        BY <2>1, <2>2
      <4> QED BY <2>2, <3>2, <4>1
    <3>7. from[i][j] = <<"%">> \o from[i + 2][j]
      BY <2>4, <3>3, <3>5, <3>6
    <3> QED BY <2>2, <2>3, <3>3, <3>4, <3>5, <3>7
  <2> QED BY <1>6, <2>5, <2>6, <2>7
<1> DEFINE Rest(k) == from[pos[k] + 1][cnt[k] + 1] = SubSeq(R, k + 1, N)
           Good == {d \in Nat : d <= N => Rest(N - d)}
<1>8. 0 \in Good
  <2>1. SubSeq(R, N + 1, N) = <<>>
    BY <1>2, <1>6
  <2>2. from[L + 1][n + 1] = <<>>
    BY <1>2, <1>4 DEF PrintedWalks, L
  <2>3. Rest(N)
    BY <1>3, <1>5, <2>1, <2>2
  <2>4. N - 0 = N
    BY <1>2
  <2> HIDE DEF Rest
  <2> QED BY <2>3, <2>4
<1>9. ASSUME NEW d \in Good PROVE d + 1 \in Good
  <2> SUFFICES ASSUME d + 1 <= N PROVE Rest(N - (d + 1))
    OBVIOUS
  <2>1. PICK k \in 1 .. N : k = N - d
    BY <1>2
  <2>2. N - (d + 1) = k - 1 /\ (k - 1) + 1 = k /\ Rest(k)
    <3> HIDE DEF Rest
    <3>1. d <= N /\ d \in Nat
      BY <1>2
    <3> QED BY <1>2, <2>1, <3>1
  <2>3. SubSeq(R, k, N) = <<R[k]>> \o SubSeq(R, k + 1, N)
    BY <1>6, RestFrom
  <2> QED BY <1>7, <2>2, <2>3
<1>10. Good = Nat
  <2>1. Good \in SUBSET Nat
    OBVIOUS
  <2> HIDE DEF Good
  <2> QED BY <1>8, <1>9, <2>1, Induction
<1>11. Rest(0)
  <2> HIDE DEF Rest
  <2>1. N \in Good /\ N <= N /\ N - N = 0
    <3> HIDE DEF Good
    <3> QED BY <1>2, <1>10
  <2> QED BY <2>1
<1>12. from[1][1] = SubSeq(R, 1, N)
  BY <1>3, <1>5, <1>11
<1>13. SubSeq(R, 1, N) = R
  BY <1>2, <1>6
<1> QED BY <1>1, <1>4, <1>12, <1>13 DEF C, R

\* A line, but for its end: the time stamp, the level and the tag, and what printFmt writes.
LEMMA LineText ==
  ASSUME NEW t \in Tasks, NEW m \in Says[t],
         NEW text, text = SubSeq(Line(t, m), 1, Len(Line(t, m)) - 1)
  PROVE  SubSeq(text, 4, Len(text)) = Printed(Chars(m.format), Cardinality(Conversions(m.format)))
<1>1. PICK p \in Seq(Pieces) : p = Printed(Chars(m.format), Cardinality(Conversions(m.format)))
  <2>1. m.format \in Seq(Items)
    BY ConsoleAssumption DEF Message
  <2>2. Cardinality(Conversions(m.format)) \in 0 .. 4
    BY MessagesAssumption DEF Argument
  <2> QED BY <2>1, <2>2, CharsType, PrintedType
<1> DEFINE Words == Pieces \cup {"time", LevelName[m.level + 1], t, Newline}
<1>2. PICK h \in Seq(Words) : h = <<"time", LevelName[m.level + 1], t>> /\ Len(h) = 3
  <2> DEFINE level == LevelName[m.level + 1]
  <2>1. {"time", level, t} \subseteq Words
    OBVIOUS
  <2> HIDE DEF level, Words
  <2>2. <<"time", level, t>> \in Seq(Words) /\ Len(<<"time", level, t>>) = 3
    BY <2>1
  <2> QED BY <2>2 DEF level
<1>3. p \in Seq(Words) /\ <<Newline>> \in Seq(Words)
  OBVIOUS
<1>4. Line(t, m) = (h \o p) \o <<Newline>>
  BY <1>1, <1>2 DEF Line
<1> HIDE DEF Words
<1>5. PICK n \in Nat : n = Len(p)
  OBVIOUS
<1>6. /\ h \o p \in Seq(Words) /\ Len(h \o p) = n + 3
      /\ \A q \in 1 .. n : (h \o p)[q + 3] = p[q]
  BY <1>2, <1>3, <1>5
<1>7. text = h \o p
  <2>1. PICK a \in Seq(Words) : a = h \o p
    BY <1>6
  <2>2. Len(a \o <<Newline>>) - 1 = Len(a) /\ SubSeq(a \o <<Newline>>, 1, Len(a)) = a
    BY <1>3
  <2> QED BY <1>4, <2>1, <2>2
<1>8. SubSeq(h \o p, 4, n + 3) = p
  <2> DEFINE s == SubSeq(h \o p, 4, n + 3)
  <2>1. /\ s \in Seq(Words) /\ Len(s) = n
        /\ \A q \in 1 .. n : s[q] = (h \o p)[q + 3]
    BY <1>6
  <2> HIDE DEF s
  <2>2. s = p
    BY <1>3, <1>5, <1>6, <2>1
  <2> QED BY <2>2 DEF s
<1> QED BY <1>1, <1>6, <1>7, <1>8

\* The line last ended is one of the task's messages, but for its end.
EndedInv ==
  ended # Nothing =>
    /\ ended.by \in Tasks /\ ended.msg \in Says[ended.by]
    /\ ended.text = SubSeq(Line(ended.by, ended.msg), 1, Len(Line(ended.by, ended.msg)) - 1)

LEMMA NextEndedInv == ConsoleInv /\ LinesInv /\ EndedInv /\ [Next]_vars => EndedInv'
<1> SUFFICES ASSUME ConsoleInv, LinesInv, EndedInv, [Next]_vars PROVE EndedInv'
  OBVIOUS
<1>1. CASE UNCHANGED ended
  BY <1>1 DEF EndedInv
<1>2. CASE ended' = Nothing
  BY <1>2 DEF EndedInv
<1>3. ASSUME NEW t \in Tasks, Write(t), ended' # ended PROVE EndedInv'
  <2> DEFINE w == Line(t, msg[t])
             d == done[t]
  <2>1. /\ w[d + 1] = Newline /\ ended' = [by |-> t, msg |-> msg[t], text |-> line]
        /\ d \in Nat /\ d < Len(w) /\ mutex = t /\ report = NoFault
    BY <1>3 DEF Write, Runs, ConsoleInv, TypeOK, WritersHaveTheMutex
  <2>2. msg[t] \in Says[t]
    BY <1>3 DEF LinesInv, OwnMessages, Write
  <2>3. line = SubSeq(w, 1, d)
    BY <2>1 DEF LinesInv, LineSoFar
  <2>4. Len(w) \in Nat /\ \A k \in 1 .. Len(w) : w[k] = Newline <=> k = Len(w)
    BY <2>2, LineEnds
  <2> HIDE DEF w, d
  <2>5. d = Len(w) - 1
    BY <2>1, <2>4
  <2> QED BY <2>1, <2>2, <2>3, <2>5 DEF EndedInv, w
<1>4. ASSUME NEW t \in Tasks, Wake(t) \/ Step(t)
      PROVE  UNCHANGED ended \/ ended' = Nothing \/ Write(t)
  BY <1>4 DEF Wake, Step, Sleep, Log, Take, Give
<1>5. ASSUME NEW fault \in Faults, Fault(fault) PROVE UNCHANGED ended
  BY <1>5 DEF Fault
<1>6. CASE Report \/ SystemReset
  BY <1>1, <1>2, <1>6 DEF Report, SystemReset
<1> QED BY <1>1, <1>2, <1>3, <1>4, <1>5, <1>6 DEF Next, vars

\* The arguments are in their places, in what the line last ended says.
LEMMA EndedArguments == EndedInv => ArgumentsInPlace
<1> SUFFICES ASSUME EndedInv, ended.by # NoOne, Regular(ended.msg.format)
             PROVE  SubSeq(ended.text, 4, Len(ended.text)) = Rendered(ended.msg.format)
  BY DEF ArgumentsInPlace
<1>1. ended # Nothing
  BY DEF Nothing
<1>2. PICK t \in Tasks : t = ended.by
  BY <1>1 DEF EndedInv
<1>3. PICK m \in Says[t] :
        ended.msg = m /\ ended.text = SubSeq(Line(t, m), 1, Len(Line(t, m)) - 1)
  BY <1>1, <1>2 DEF EndedInv
<1>4. m.format \in Seq(Items)
  BY ConsoleAssumption DEF Message
<1>5. Cardinality(Conversions(m.format)) \in 0 .. 4
  BY MessagesAssumption DEF Argument
<1> QED BY <1>3, <1>4, <1>5, LineText, PrintedIsRendered

-----------------------------------------------------------------------------
(***************************************************************************)
(* The theorems.                                                           *)
(***************************************************************************)

\* The inductive invariant holds.
THEOREM ConsoleInvariant == Spec => []ConsoleInv
BY InitConsoleInv, NextConsoleInv, PTL DEF Spec

\* Every variable has its type.
THEOREM ConsoleTypes == Spec => []TypeOK
BY ConsoleInvariant, PTL DEF ConsoleInv

\* Who writes a line has the mutex alone, over every switch of tasks, fault and reset.
THEOREM OneWriter == Spec => []WritersHaveTheMutex
BY ConsoleInvariant, PTL DEF ConsoleInv

\* A line that a task ends is its message, whole and alone on its line, over every
\* switch of tasks, fault and reset, whatever the tasks say.
THEOREM WholeLines == Spec => []LinesAreWhole
<1>1. Init => ConsoleInv /\ LinesInv
  BY InitConsoleInv, InitLinesInv
<1>2. (ConsoleInv /\ LinesInv) /\ [Next]_vars => (ConsoleInv /\ LinesInv)'
  BY NextConsoleInv, NextLinesInv
<1>3. ConsoleInv /\ LinesInv => LinesAreWhole
  BY DEF LinesInv
<1> QED BY <1>1, <1>2, <1>3, PTL DEF Spec

\* Every argument of a line's message is printed in its place among the characters of the
\* format, whatever the tasks say in regular formats: those in which no percent sign comes
\* after the last argument, and no conversion is cut off.
THEOREM ArgumentsPrinted == Spec => []ArgumentsInPlace
<1>1. Init => ConsoleInv /\ LinesInv /\ EndedInv
  BY InitConsoleInv, InitLinesInv DEF Init, EndedInv
<1>2. (ConsoleInv /\ LinesInv /\ EndedInv) /\ [Next]_vars => (ConsoleInv /\ LinesInv /\ EndedInv)'
  BY NextConsoleInv, NextLinesInv, NextEndedInv
<1> QED BY <1>1, <1>2, EndedArguments, PTL DEF Spec

\* While a task waits for the console, only its owner, or a task of no lower priority,
\* gets on.
LEMMA StepNoInversion ==
  ASSUME ConsoleInv, [Next]_vars, NEW t \in Tasks, NEW u \in Tasks,
         pc[u] = "blocked", Priority[t] < Priority[u], mutex # t,
         pc[t] # "away", report = NoFault
  PROVE  pc'[t] = pc[t] /\ done'[t] = done[t]
<1> USE ConsoleAssumption DEF ConsoleInv, TypeOK
<1>1. ASSUME NEW x \in Tasks, Wake(x) \/ Step(x), x # t
      PROVE  pc'[t] = pc[t] /\ done'[t] = done[t]
  <2>1. CASE Give(x)
    <3>1. pc[x] = "write" /\ done' = [done EXCEPT ![x] = 0]
      BY <2>1 DEF Give
    <3>2. PICK w \in Blocked : /\ \A v \in Blocked : Priority[v] <= Priority[w]
                               /\ pc' = [pc EXCEPT ![x] = "work", ![w] = "take"]
      BY <2>1 DEF Give, Blocked
    <3>3. w # t
      BY <3>2 DEF Blocked
    <3>. QED BY <1>1, <3>1, <3>2, <3>3 DEF Blocked
  <2>2. CASE Wake(x)
    BY <1>1, <2>2 DEF Wake
  <2>3. CASE Sleep(x)
    BY <1>1, <2>3 DEF Sleep
  <2>4. ASSUME NEW m \in Says[x], Log(x, m) PROVE pc'[t] = pc[t] /\ done'[t] = done[t]
    BY <1>1, <2>4 DEF Log
  <2>5. CASE Take(x)
    BY <1>1, <2>5 DEF Take
  <2>6. CASE Write(x)
    BY <1>1, <2>6 DEF Write
  <2>. QED BY <1>1, <2>1, <2>2, <2>3, <2>4, <2>5, <2>6 DEF Step
<1>2. ~Wake(t)
  BY DEF Wake
<1>3. ~Runs(t)
  <2>1. SUFFICES ASSUME Runs(t) PROVE FALSE
    OBVIOUS
  <2>2. Ranks(t) = {Priority[t]}
    BY DEF Ranks
  <2>3. PICK w \in Ready : Priority[u] \in Ranks(w) \/ Priority[u] <= Priority[w]
    <3>1. CASE mutex = NoOne
      BY <3>1 DEF WaitersAreRepresented, Ready
    <3>2. CASE mutex # NoOne
      BY <3>2 DEF WritersHaveTheMutex, Ready, Ranks, Blocked
    <3>. QED BY <3>1, <3>2
  <2>4. PICK p \in Ranks(w) : Priority[u] <= p
    BY <2>3 DEF Ranks, Ready
  <2>5. p <= Priority[t]
    BY <2>1, <2>2, <2>4 DEF Runs
  <2>6. p \in Nat
    BY <2>3, <2>4 DEF Ranks, Ready, Blocked
  <2>. QED BY <2>4, <2>5, <2>6
<1>4. ~Step(t)
  BY <1>3 DEF Step, Sleep, Log, Take, Write, Give
<1>5. ASSUME NEW fault \in Faults, Fault(fault) PROVE pc'[t] = pc[t] /\ done'[t] = done[t]
  BY <1>5 DEF Fault
<1>6. CASE Report \/ SystemReset
  BY <1>6 DEF Report, SystemReset
<1>7. CASE UNCHANGED vars
  BY <1>7 DEF vars
<1>. QED BY <1>1, <1>2, <1>4, <1>5, <1>6, <1>7 DEF Next

\* The same of every behaviour.
THEOREM NoInversion == Spec => NoPriorityInversion
<1>1. ConsoleInv /\ [Next]_vars =>
        [\A t, u \in Tasks :
           pc[u] = "blocked" /\ Priority[t] < Priority[u] /\ mutex # t
             => pc[t] = "away" \/ (pc'[t] = pc[t] /\ done'[t] = done[t])
                  \/ report # NoFault]_vars
  BY StepNoInversion
<1>. QED BY <1>1, ConsoleInvariant, PTL DEF Spec, NoPriorityInversion

=============================================================================
