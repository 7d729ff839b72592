---------------------------- MODULE AuditLogProofs ----------------------------
(***************************************************************************)
(* What verification of the audit file is worth, proved for files of any   *)
(* length, any number of processes that append to it, and any number of    *)
(* failing writes and restarts.                                            *)
(***************************************************************************)
EXTENDS AuditLog, SequenceTheorems, TLAPS

USE BoundsAreNaturals

(* The one thing a line that is not JSON cannot be.                        *)
TornIsNoLine == \A n, p, e : Line(n, p, e) # Torn

Fields == {"sequence", "previous_hash", "event", "event_hash"}
IsRecord(line) == line = [field \in Fields |-> line[field]]
IsLine(line) == line = Torn \/ IsRecord(line)

IsFile(f) ==
    /\ f \in Seq({f[i] : i \in DOMAIN f})
    /\ \A i \in DOMAIN f : IsLine(f[i])

Types ==
    /\ IsFile(file)
    /\ newline \/ file # << >>
    /\ {newline, cut, overlapped} \subseteq BOOLEAN
    /\ writer \in [Writers -> {"open", "refused"}]
    /\ sequence \in [Writers -> Nat]
    /\ last = [w \in Writers |-> last[w]]
    /\ behind \subseteq Writers
    /\ {failures, restarts, damage} \subseteq Nat

(* Every acknowledged line is in a file that verifies.                     *)
Kept ==
    damage = 0 /\ Verifies(file) =>
        \A line \in acked : \E i \in DOMAIN file : file[i] = line

(* Where the writers are: a writer that is behind has counted fewer lines. *)
Counted ==
    failures = 0 /\ damage = 0 /\ ~cut =>
        /\ newline
        /\ Verifies(file) <=> ~overlapped
        /\ \A w \in Writers :
              /\ sequence[w] <= Len(file)
              /\ w \in behind => sequence[w] < Len(file)
              /\ ~overlapped /\ w \notin behind =>
                    /\ sequence[w] = Len(file)
                    /\ last[w] = PreviousHash(file, Len(file) + 1)

-----------------------------------------------------------------------------
(* What the ways to change a file make of it.                              *)
LEMMA LinesMakeFile ==
    ASSUME NEW S, NEW g \in Seq(S), \A i \in DOMAIN g : IsLine(g[i])
    PROVE  IsFile(g)
BY DEF IsFile

LEMMA SameFile ==
    ASSUME NEW f, IsFile(f), NEW g, IsFile(g), Len(g) = Len(f),
           \A i \in 1..Len(f) : g[i] = f[i]
    PROVE  g = f
<1> DEFINE S == {f[i] : i \in DOMAIN f} \cup {g[i] : i \in DOMAIN g}
<1>1. f \in Seq(S) /\ g \in Seq(S)
    BY DEF IsFile
<1> HIDE DEF S
<1> QED
    BY <1>1, SeqEqual

LEMMA AppendedFile ==
    ASSUME NEW f, IsFile(f), NEW line, IsLine(line)
    PROVE  /\ IsFile(Append(f, line))
           /\ Len(Append(f, line)) = Len(f) + 1
           /\ Append(f, line)[Len(f) + 1] = line
           /\ \A i \in DOMAIN f : Append(f, line)[i] = f[i]
           /\ DOMAIN Append(f, line) = 1..(Len(f) + 1) /\ DOMAIN f = 1..Len(f) /\ Len(f) \in Nat
<1> DEFINE S == {f[i] : i \in DOMAIN f} \cup {line}
           g == Append(f, line)
<1>1. f \in Seq(S) /\ line \in S
    BY DEF IsFile
<1>2. g \in Seq(S) /\ Len(g) = Len(f) + 1 /\ g[Len(f) + 1] = line /\ \A i \in DOMAIN f : g[i] = f[i]
    BY <1>1
<1>3. DOMAIN f = 1..Len(f) /\ DOMAIN g = 1..(Len(f) + 1) /\ Len(f) \in Nat
    BY <1>1, <1>2
<1>4. \A i \in DOMAIN g : IsLine(g[i])
    BY <1>2, <1>3 DEF IsFile
<1>5. IsFile(g)
    <2> HIDE DEF g
    <2> QED
        BY <1>2, <1>4, LinesMakeFile
<1> QED
    BY <1>2, <1>3, <1>4, <1>5

LEMMA TornFile ==
    ASSUME NEW f, IsFile(f), f # << >>
    PROVE  /\ IsFile([f EXCEPT ![Len(f)] = Torn])
           /\ DOMAIN [f EXCEPT ![Len(f)] = Torn] = 1..Len(f)
           /\ Len([f EXCEPT ![Len(f)] = Torn]) = Len(f)
           /\ [f EXCEPT ![Len(f)] = Torn][Len(f)] = Torn /\ Len(f) \in 1..Len(f)
<1> DEFINE S == {f[i] : i \in DOMAIN f} \cup {Torn}
           g == [f EXCEPT ![Len(f)] = Torn]
<1>1. f \in Seq(S) /\ Torn \in S
    BY DEF IsFile
<1>2. DOMAIN f = 1..Len(f) /\ DOMAIN g = 1..Len(f) /\ Len(f) \in 1..Len(f)
    BY <1>1, EmptySeq
<1>3. /\ g \in Seq(S) /\ Len(g) = Len(f)
      /\ \A j \in 1..Len(f) : g[j] = IF j = Len(f) THEN Torn ELSE f[j]
    BY <1>1, <1>2, ExceptSeq
<1>4. \A i \in DOMAIN g : IsLine(g[i])
    BY <1>2, <1>3 DEF IsFile, IsLine
<1>5. IsFile(g)
    <2> HIDE DEF g
    <2> QED
        BY <1>3, <1>4, LinesMakeFile
<1> QED
    BY <1>2, <1>3, <1>4, <1>5

(* A longer file verifies if the shorter did and the new line fits.        *)
LEMMA AppendedVerifies ==
    ASSUME NEW f, IsFile(f), NEW line, IsLine(line)
    PROVE  Verifies(Append(f, line)) <=>
              /\ Verifies(f)
              /\ line # Torn
              /\ line.sequence = Len(f) + 1
              /\ line.previous_hash = PreviousHash(f, Len(f) + 1)
              /\ line.event_hash = HashOf(line)
<1> DEFINE g == Append(f, line)
           n == Len(f) + 1
<1>1. /\ n \in Nat /\ Len(f) \in Nat /\ n = Len(f) + 1
      /\ DOMAIN f = 1..Len(f) /\ DOMAIN g = 1..n
      /\ g[n] = line /\ \A i \in 1..Len(f) : g[i] = f[i]
    BY AppendedFile
<1> HIDE DEF g, n
<1>2. ASSUME NEW i \in 1..n
      PROVE  PreviousHash(g, i) = PreviousHash(f, i)
    BY <1>1 DEF PreviousHash
<1>3. \A i \in 1..Len(f) : LineVerifies(g, i) <=> LineVerifies(f, i)
    BY <1>1, <1>2 DEF LineVerifies
<1>4. LineVerifies(g, n) <=> /\ line # Torn /\ line.sequence = n
                             /\ line.previous_hash = PreviousHash(f, n)
                             /\ line.event_hash = HashOf(line)
    BY <1>1, <1>2 DEF LineVerifies
<1>5. 1..n = 1..Len(f) \cup {n}
    BY <1>1
<1> QED
    BY <1>1, <1>3, <1>4, <1>5 DEF Verifies, g, n

(* Every write keeps the file a file, and one that verifies afterwards     *)
(* ends in the line written, after a file that verified.                   *)
LEMMA PutFile ==
    ASSUME Types, NEW line, IsLine(line)
    PROVE  /\ IsFile(Put(line)) /\ Put(line) # << >>
           /\ newline => Put(line) = Append(file, line)
           /\ ~newline => ~Verifies(Put(line))
<1>1. CASE newline
    <2>1. Put(line) = Append(file, line)
        BY <1>1 DEF Put
    <2>2. IsFile(Append(file, line)) /\ Len(Append(file, line)) = Len(file) + 1 /\ Len(file) \in Nat
        BY AppendedFile DEF Types
    <2> QED
        BY <1>1, <2>1, <2>2
<1>2. CASE ~newline
    <2> DEFINE g == [file EXCEPT ![Len(file)] = Torn]
    <2>1. Put(line) = g /\ file # << >> /\ IsFile(file)
        BY <1>2 DEF Put, Types
    <2>2. /\ IsFile(g) /\ DOMAIN g = 1..Len(file)
          /\ g[Len(file)] = Torn /\ Len(file) \in 1..Len(file)
        BY <2>1, TornFile
    <2>3. ~Verifies(g) /\ g # << >>
        <3> HIDE DEF g
        <3>1. ~LineVerifies(g, Len(file))
            BY <2>2 DEF LineVerifies
        <3> QED
            BY <2>2, <3>1 DEF Verifies
    <2> QED
        BY <1>2, <2>1, <2>2, <2>3
<1> QED
    BY <1>1, <1>2

-----------------------------------------------------------------------------
(* What each kind of damage makes of a file.                               *)
Edited(f, i, e) == [f EXCEPT ![i].event = e]
Swapped(f, i, j) == [f EXCEPT ![i] = f[j], ![j] = f[i]]

LEMMA EditMakes ==
    ASSUME NEW f, IsFile(f), NEW i \in DOMAIN f, f[i] # Torn, NEW e,
           NEW g, g = Edited(f, i, e)
    PROVE  /\ IsFile(g) /\ Len(g) = Len(f) /\ DOMAIN g = 1..Len(f)
           /\ DOMAIN f = 1..Len(f) /\ Len(f) \in Nat
           /\ \A j \in 1..Len(f) : j # i => g[j] = f[j]
           /\ IsRecord(f[i]) /\ IsRecord(g[i]) /\ g[i].event = e
           /\ \A field \in Fields : field # "event" => g[i][field] = f[i][field]
<1> DEFINE line == [f[i] EXCEPT !.event = e]
           S == {f[j] : j \in DOMAIN f} \cup {line}
<1>1. f \in Seq(S) /\ line \in S /\ DOMAIN f = 1..Len(f) /\ Len(f) \in Nat
    BY DEF IsFile
<1>2. f[i] = [field \in Fields |-> f[i][field]]
    BY DEF IsFile, IsLine, IsRecord
<1>3. /\ IsRecord(line) /\ line.event = e
      /\ \A field \in Fields : field # "event" => line[field] = f[i][field]
    BY <1>2 DEF IsRecord, Fields
<1>4. g = [f EXCEPT ![i] = line]
    BY DEF Edited
<1> HIDE DEF line, S
<1>5. /\ g \in Seq(S) /\ Len(g) = Len(f)
      /\ \A j \in 1..Len(f) : g[j] = IF j = i THEN line ELSE f[j]
    BY <1>1, <1>4, ExceptSeq
<1>6. DOMAIN g = 1..Len(f)
    BY <1>1, <1>5
<1>7. IsFile(g)
    <2>1. \A j \in DOMAIN g : IsLine(g[j])
        BY <1>1, <1>3, <1>5, <1>6 DEF IsFile, IsLine
    <2> QED
        BY <1>5, <2>1, LinesMakeFile
<1>8. IsRecord(f[i])
    BY <1>2 DEF IsRecord
<1> QED
    BY <1>1, <1>3, <1>5, <1>6, <1>7, <1>8

AreSwapped(f, i, j, g) ==
    /\ Len(g) = Len(f) /\ DOMAIN g = 1..Len(f) /\ DOMAIN f = 1..Len(f) /\ Len(f) \in Nat
    /\ g[j] = f[i] /\ g[i] = f[j] /\ \A k \in 1..Len(f) : k \notin {i, j} => g[k] = f[k]

LEMMA SwapMakes ==
    ASSUME NEW f, IsFile(f), NEW i \in DOMAIN f, NEW j \in DOMAIN f,
           NEW g, g = Swapped(f, i, j)
    PROVE  IsFile(g) /\ g # << >> /\ AreSwapped(f, i, j, g)
<1> DEFINE S == {f[k] : k \in DOMAIN f}
           h == [f EXCEPT ![i] = f[j]]
<1>1. f \in Seq(S) /\ f[i] \in S /\ f[j] \in S /\ DOMAIN f = 1..Len(f) /\ Len(f) \in Nat
    BY DEF IsFile
<1>2. /\ h \in Seq(S) /\ Len(h) = Len(f)
      /\ \A k \in 1..Len(f) : h[k] = IF k = i THEN f[j] ELSE f[k]
    BY <1>1, ExceptSeq
<1>3. g = [h EXCEPT ![j] = f[i]]
    BY DEF Swapped
<1> HIDE DEF h, S
<1>4. /\ g \in Seq(S) /\ Len(g) = Len(h)
      /\ \A k \in 1..Len(h) : g[k] = IF k = j THEN f[i] ELSE h[k]
    <2>1. j \in 1..Len(h)
        BY <1>1, <1>2
    <2> QED
        BY <1>1, <1>2, <1>3, <2>1, ExceptSeq
<1>5. /\ Len(g) = Len(f) /\ DOMAIN g = 1..Len(f)
      /\ \A k \in 1..Len(f) : g[k] = IF k = j THEN f[i] ELSE IF k = i THEN f[j] ELSE f[k]
    BY <1>1, <1>2, <1>4
<1>6. IsFile(g) /\ g # << >>
    <2>1. \A k \in DOMAIN g : IsLine(g[k])
        BY <1>1, <1>5 DEF IsFile
    <2>2. g # << >>
        BY <1>1, <1>5
    <2> QED
        BY <1>4, <2>1, <2>2, LinesMakeFile
<1> QED
    BY <1>1, <1>5, <1>6 DEF AreSwapped

LEMMA RestOf ==
    ASSUME NEW S, NEW f, NEW n \in Nat, NEW j \in 0..n, \A k \in 1..n : f[k] \in S,
           NEW back, back = SubSeq(f, j + 1, n)
    PROVE  /\ back \in Seq(S) /\ Len(back) = n - j
           /\ \A k \in 1..(n - j) : back[k] = f[j + k]
<1> DEFINE m == j + 1
<1>1. m \in Int /\ n \in Int /\ \A k \in m..n : f[k] \in S
    OBVIOUS
<1>2. /\ SubSeq(f, m, n) \in Seq(S)
      /\ Len(SubSeq(f, m, n)) = IF m <= n THEN n - m + 1 ELSE 0
      /\ \A k \in 1..(n - m + 1) : SubSeq(f, m, n)[k] = f[m + k - 1]
    <2> HIDE DEF m
    <2> QED
        BY <1>1, SubSeqProperties
<1>3. /\ back \in Seq(S)
      /\ Len(back) = IF j + 1 <= n THEN n - (j + 1) + 1 ELSE 0
      /\ \A k \in 1..(n - (j + 1) + 1) : back[k] = f[j + 1 + k - 1]
    BY <1>2
<1>4. Len(back) = n - j
    BY <1>3
<1>5. ASSUME NEW k \in 1..(n - j) PROVE back[k] = f[j + k]
    <2>1. k \in 1..(n - (j + 1) + 1) /\ j + 1 + k - 1 = j + k
        OBVIOUS
    <2> QED
        BY <1>3, <2>1
<1> QED
    BY <1>3, <1>4, <1>5

LEMMA Shifted ==
    ASSUME NEW n \in Int, NEW j \in Int, NEW k \in Int, j + 2 <= k, k <= n + 1
    PROVE  /\ k - (j + 1) \in 1..(n - j) /\ j + (k - (j + 1)) = k - 1
           /\ j + 1 + (k - (j + 1)) = k
OBVIOUS

LEMMA Joined ==
    ASSUME NEW S, NEW a, a \in Seq(S), NEW b, b \in Seq(S),
           NEW g, g = a \o b
    PROVE  /\ g \in Seq(S) /\ Len(g) = Len(a) + Len(b)
           /\ \A k \in 1..Len(a) : g[k] = a[k]
           /\ \A k \in 1..Len(b) : g[Len(a) + k] = b[k]
BY ConcatProperties

LEMMA RepeatMakes ==
    ASSUME NEW f, IsFile(f), NEW i \in DOMAIN f, NEW j \in DOMAIN f,
           NEW g, g = RepeatLine(f, i, j)
    PROVE  /\ IsFile(g) /\ g # << >> /\ Len(g) = Len(f) + 1 /\ DOMAIN g = 1..(Len(f) + 1)
           /\ DOMAIN f = 1..Len(f) /\ Len(f) \in Nat
           /\ \A k \in 1..j : g[k] = f[k]
           /\ g[j + 1] = f[i]
           /\ \A k \in (j + 2)..(Len(f) + 1) : g[k] = f[k - 1]
<1> DEFINE S == {f[k] : k \in DOMAIN f}
           front == SubSeq(f, 1, j)
           back == SubSeq(f, j + 1, Len(f))
           head == front \o <<f[i]>>
<1>1. /\ f \in Seq(S) /\ \A k \in 1..Len(f) : f[k] \in S
      /\ DOMAIN f = 1..Len(f) /\ Len(f) \in Nat /\ i \in 1..Len(f) /\ j \in 1..Len(f)
    BY DEF IsFile
<1>2. \A s \in S : IsLine(s)
    BY DEF IsFile
<1> HIDE DEF S
<1>3. /\ front \in Seq(S) /\ Len(front) = j
      /\ \A k \in 1..j : front[k] = f[k]
    BY <1>1, SubSeqProperties
<1>4. /\ back \in Seq(S) /\ Len(back) = Len(f) - j
      /\ \A k \in 1..(Len(f) - j) : back[k] = f[j + k]
    <2>1. back = SubSeq(f, j + 1, Len(f)) /\ j \in 0..Len(f)
        BY <1>1
    <2> HIDE DEF back
    <2> QED
        BY <1>1, <2>1, RestOf
<1>5. <<f[i]>> \in Seq(S) /\ Len(<<f[i]>>) = 1 /\ <<f[i]>>[1] = f[i]
    BY <1>1
<1> HIDE DEF front, back
<1>6. /\ head \in Seq(S) /\ Len(head) = j + 1
      /\ head[j + 1] = f[i] /\ \A k \in 1..j : head[k] = f[k]
    BY <1>1, <1>3, <1>5, ConcatProperties
<1>7. g = head \o back
    BY DEF RepeatLine, head, front, back
<1> HIDE DEF head
<1>8. /\ g \in Seq(S) /\ Len(g) = Len(f) + 1
      /\ g[j + 1] = f[i] /\ \A k \in 1..j : g[k] = f[k]
      /\ \A k \in (j + 2)..(Len(f) + 1) : g[k] = f[k - 1]
    <2>1. /\ g \in Seq(S) /\ Len(g) = Len(head) + Len(back)
          /\ \A k \in 1..Len(head) : g[k] = head[k]
          /\ \A k \in 1..Len(back) : g[Len(head) + k] = back[k]
        <3>1. head \in Seq(S) /\ back \in Seq(S)
            BY <1>4, <1>6
        <3> QED
            BY <1>7, <3>1, Joined
    <2>2. Len(g) = Len(f) + 1 /\ g[j + 1] = f[i]
        BY <1>1, <1>4, <1>6, <2>1
    <2>3. \A k \in 1..j : g[k] = f[k]
        BY <1>1, <1>6, <2>1
    <2>4. ASSUME NEW k \in (j + 2)..(Len(f) + 1) PROVE g[k] = f[k - 1]
        <3>1. Len(f) \in Int /\ j \in Int /\ k \in Int /\ j + 2 <= k /\ k <= Len(f) + 1
            BY <1>1
        <3>2. /\ k - (j + 1) \in 1..(Len(f) - j) /\ j + (k - (j + 1)) = k - 1
              /\ j + 1 + (k - (j + 1)) = k
            BY <3>1, Shifted
        <3>3. g[j + 1 + (k - (j + 1))] = back[k - (j + 1)]
            BY <1>4, <1>6, <2>1, <3>2
        <3>4. g[k] = back[k - (j + 1)]
            BY <3>2, <3>3
        <3> QED
            BY <1>4, <3>2, <3>4
    <2> QED
        BY <2>1, <2>2, <2>3, <2>4
<1>9. DOMAIN g = 1..(Len(f) + 1)
    BY <1>1, <1>8
<1>10. \A k \in DOMAIN g : IsLine(g[k])
    <2>1. \A k \in DOMAIN g : g[k] \in S
        BY <1>1, <1>8, <1>9
    <2> QED
        BY <1>2, <2>1
<1>11. IsFile(g) /\ g # << >>
    BY <1>1, <1>8, <1>10, LinesMakeFile
<1> QED
    BY <1>1, <1>8, <1>9, <1>11

LEMMA RemovalMakes ==
    ASSUME NEW f, IsFile(f), NEW i \in 1..(Len(f) - 1),
           NEW g, g = RemoveLine(f, i)
    PROVE  /\ IsFile(g) /\ g # << >> /\ Len(g) = Len(f) - 1 /\ DOMAIN g = 1..(Len(f) - 1)
           /\ DOMAIN f = 1..Len(f) /\ Len(f) \in Nat
           /\ \A k \in 1..(i - 1) : g[k] = f[k]
           /\ \A k \in i..(Len(f) - 1) : g[k] = f[k + 1]
<1> DEFINE S == {f[k] : k \in DOMAIN f}
           front == SubSeq(f, 1, i - 1)
           back == SubSeq(f, i + 1, Len(f))
<1>1. /\ f \in Seq(S) /\ \A k \in 1..Len(f) : f[k] \in S
      /\ DOMAIN f = 1..Len(f) /\ Len(f) \in Nat /\ i \in 1..Len(f) /\ i < Len(f)
    BY DEF IsFile
<1>2. \A s \in S : IsLine(s)
    BY DEF IsFile
<1> HIDE DEF S
<1>3. front \in Seq(S) /\ Len(front) = i - 1 /\ \A k \in 1..(i - 1) : front[k] = f[k]
    BY <1>1, SubSeqProperties
<1>4. /\ back \in Seq(S) /\ Len(back) = Len(f) - i
      /\ \A k \in 1..(Len(f) - i) : back[k] = f[i + k]
    <2>1. back = SubSeq(f, i + 1, Len(f)) /\ i \in 0..Len(f)
        BY <1>1
    <2> HIDE DEF back
    <2> QED
        BY <1>1, <2>1, RestOf
<1>5. g = front \o back
    BY DEF RemoveLine
<1> HIDE DEF front, back
<1>6. /\ g \in Seq(S) /\ Len(g) = Len(f) - 1
      /\ \A k \in 1..(i - 1) : g[k] = f[k]
      /\ \A k \in i..(Len(f) - 1) : g[k] = f[k + 1]
    <2>1. /\ g \in Seq(S) /\ Len(g) = Len(front) + Len(back)
          /\ \A k \in 1..Len(front) : g[k] = front[k]
          /\ \A k \in 1..Len(back) : g[Len(front) + k] = back[k]
        <3>1. front \in Seq(S) /\ back \in Seq(S)
            BY <1>3, <1>4
        <3> QED
            BY <1>5, <3>1, Joined
    <2>2. Len(g) = Len(f) - 1 /\ \A k \in 1..(i - 1) : g[k] = f[k]
        BY <1>1, <1>3, <1>4, <2>1
    <2>3. ASSUME NEW k \in i..(Len(f) - 1) PROVE g[k] = f[k + 1]
        <3>1. k - i + 1 \in 1..(Len(f) - i) /\ (i - 1) + (k - i + 1) = k /\ i + (k - i + 1) = k + 1
            BY <1>1
        <3>2. g[(i - 1) + (k - i + 1)] = back[k - i + 1] /\ back[k - i + 1] = f[i + (k - i + 1)]
            BY <1>3, <1>4, <2>1, <3>1
        <3> QED
            BY <3>1, <3>2
    <2> QED
        BY <2>1, <2>2, <2>3
<1>7. DOMAIN g = 1..(Len(f) - 1)
    BY <1>1, <1>6
<1>8. \A k \in DOMAIN g : IsLine(g[k])
    <2>1. \A k \in DOMAIN g : g[k] \in S
        BY <1>1, <1>6, <1>7
    <2> QED
        BY <1>2, <2>1
<1>9. IsFile(g) /\ g # << >>
    BY <1>1, <1>6, <1>8, LinesMakeFile
<1> QED
    BY <1>1, <1>6, <1>7, <1>9

(* What verification sees of it.  A record's hash shows an edit and the    *)
(* numbers show a repetition and a swap, even in a file that did not       *)
(* verify; a removal may turn such a file into one that does, but leaves   *)
(* its last line.                                                          *)
Signed(f) == \A i \in DOMAIN f : f[i] # Torn => f[i].event_hash = HashOf(f[i])
Numbered(f) ==
    (\A i \in DOMAIN f : f[i] # Torn) => \A i \in DOMAIN f : f[i].sequence \in 1..i
SameEnd(f, g) == f[Len(f)] # Torn /\ g[Len(g)] = f[Len(f)]

LEMMA VerifiedIsOrdered ==
    ASSUME NEW f, IsFile(f), Verifies(f)
    PROVE  Signed(f) /\ Numbered(f)
<1>1. DOMAIN f = 1..Len(f) /\ Len(f) \in Nat
    BY DEF IsFile
<1>2. \A i \in 1..Len(f) : i \in 1..i
    BY <1>1
<1> QED
    BY <1>1, <1>2 DEF Verifies, LineVerifies, Signed, Numbered

LEMMA EditShows ==
    ASSUME NEW f, IsFile(f), NEW i \in DOMAIN f, f[i] # Torn, NEW e,
           NEW g, g = Edited(f, i, e)
    PROVE  /\ IsFile(g) /\ g # << >>
           /\ g # f /\ f[i].event_hash = HashOf(f[i]) => ~Verifies(g)
<1>1. /\ IsFile(g) /\ Len(g) = Len(f) /\ DOMAIN g = 1..Len(f)
      /\ DOMAIN f = 1..Len(f) /\ Len(f) \in Nat
      /\ \A j \in 1..Len(f) : j # i => g[j] = f[j]
      /\ IsRecord(f[i]) /\ IsRecord(g[i]) /\ g[i].event = e
      /\ \A field \in Fields : field # "event" => g[i][field] = f[i][field]
    BY EditMakes
<1>2. g # << >>
    BY <1>1
<1>3. ASSUME g # f, f[i].event_hash = HashOf(f[i]), Verifies(g) PROVE FALSE
    <2>1. HashOf(g[i]) = g[i].event_hash
        BY <1>1, <1>3 DEF Verifies, LineVerifies
    <2>2. g[i].event_hash = f[i].event_hash
        BY <1>1 DEF Fields
    <2>3. f[i].event = e
        BY <1>1, <1>3, <2>1, <2>2 DEF HashOf, Hash
    <2>4. g[i] = f[i]
        <3>1. \A field \in Fields : g[i][field] = f[i][field]
            BY <1>1, <2>3
        <3> QED
            BY <1>1, <3>1 DEF IsRecord
    <2>5. g = f
        <3>1. \A j \in 1..Len(f) : g[j] = f[j]
            BY <1>1, <2>4
        <3> QED
            BY <1>1, <3>1, SameFile
    <2> QED
        BY <1>3, <2>5
<1> QED
    BY <1>1, <1>2, <1>3

LEMMA RepeatShows ==
    ASSUME NEW f, IsFile(f), NEW i \in DOMAIN f, NEW j \in DOMAIN f, Numbered(f),
           NEW g, g = RepeatLine(f, i, j)
    PROVE  IsFile(g) /\ g # << >> /\ ~Verifies(g)
<1>1. /\ IsFile(g) /\ g # << >> /\ DOMAIN g = 1..(Len(f) + 1)
      /\ DOMAIN f = 1..Len(f) /\ Len(f) \in Nat
      /\ \A k \in 1..j : g[k] = f[k]
      /\ g[j + 1] = f[i]
      /\ \A k \in (j + 2)..(Len(f) + 1) : g[k] = f[k - 1]
    BY RepeatMakes
<1>2. i \in 1..Len(f) /\ j \in 1..Len(f)
    BY <1>1
<1>3. ASSUME Verifies(g) PROVE FALSE
    <2>1. \A k \in 1..(Len(f) + 1) : g[k] # Torn /\ g[k].sequence = k
        BY <1>1, <1>3 DEF Verifies, LineVerifies
    <2>2. ASSUME NEW k \in DOMAIN f PROVE f[k] # Torn
        <3>1. CASE k <= j
            <4>1. k \in 1..j /\ k \in 1..(Len(f) + 1)
                BY <1>1, <1>2, <3>1
            <4> QED
                BY <1>1, <2>1, <4>1
        <3>2. CASE k > j
            <4>1. k + 1 \in (j + 2)..(Len(f) + 1) /\ k + 1 \in 1..(Len(f) + 1) /\ (k + 1) - 1 = k
                BY <1>1, <1>2, <3>2
            <4>2. g[k + 1] = f[(k + 1) - 1]
                BY <1>1, <4>1
            <4> QED
                BY <2>1, <4>1, <4>2
        <3> QED
            BY <1>1, <1>2, <3>1, <3>2
    <2>3. f[i].sequence \in 1..i /\ f[Len(f)].sequence \in 1..Len(f)
        <3>1. Len(f) \in DOMAIN f
            BY <1>1, <1>2
        <3> QED
            BY <2>2, <3>1 DEF Numbered
    <2>4. CASE j = Len(f)
        <3>1. j + 1 \in 1..(Len(f) + 1)
            BY <1>2, <2>4
        <3>2. f[i].sequence = j + 1
            BY <1>1, <2>1, <3>1
        <3> QED
            BY <1>2, <2>3, <2>4, <3>2
    <2>5. CASE j # Len(f)
        <3>1. /\ Len(f) + 1 \in (j + 2)..(Len(f) + 1) /\ Len(f) + 1 \in 1..(Len(f) + 1)
              /\ (Len(f) + 1) - 1 = Len(f)
            BY <1>1, <1>2, <2>5
        <3>2. g[Len(f) + 1] = f[(Len(f) + 1) - 1]
            BY <1>1, <3>1
        <3>3. f[Len(f)].sequence = Len(f) + 1
            BY <2>1, <3>1, <3>2
        <3> QED
            BY <1>1, <2>3, <3>3
    <2> QED
        BY <2>4, <2>5
<1> QED
    BY <1>1, <1>3

LEMMA SwapShows ==
    ASSUME NEW f, IsFile(f), NEW i \in DOMAIN f, NEW j \in DOMAIN f, Numbered(f),
           NEW g, g = Swapped(f, i, j), g # f
    PROVE  ~Verifies(g)
<1>1. IsFile(g) /\ AreSwapped(f, i, j, g)
    BY SwapMakes
<1>2. /\ Len(g) = Len(f) /\ DOMAIN g = 1..Len(f) /\ DOMAIN f = 1..Len(f) /\ Len(f) \in Nat
      /\ g[j] = f[i] /\ g[i] = f[j] /\ \A k \in 1..Len(f) : k \notin {i, j} => g[k] = f[k]
    BY <1>1 DEF AreSwapped
<1>3. i \in 1..Len(f) /\ j \in 1..Len(f) /\ g[j] = f[i] /\ g[i] = f[j]
    BY <1>2
<1>4. i # j
    <2>1. i = j => \A k \in 1..Len(f) : g[k] = f[k]
        BY <1>2
    <2> QED
        BY <1>1, <1>2, <2>1, SameFile
<1>5. ASSUME Verifies(g) PROVE FALSE
    <2>1. \A k \in 1..Len(f) : g[k] # Torn /\ g[k].sequence = k
        BY <1>2, <1>5 DEF Verifies, LineVerifies
    <2>2. \A k \in DOMAIN f : f[k] # Torn
        BY <1>2, <1>3, <2>1
    <2>3. f[i].sequence \in 1..i /\ f[j].sequence \in 1..j
        BY <2>2 DEF Numbered
    <2>4. f[i].sequence = j /\ f[j].sequence = i
        BY <1>3, <2>1
    <2> QED
        BY <1>3, <1>4, <2>3, <2>4
<1> QED
    BY <1>5

LEMMA RemovalShows ==
    ASSUME NEW f, IsFile(f), NEW i \in 1..(Len(f) - 1), NEW g, g = RemoveLine(f, i)
    PROVE  /\ IsFile(g) /\ g # << >>
           /\ Verifies(f) => ~Verifies(g)
           /\ Verifies(g) => SameEnd(f, g)
<1>1. /\ IsFile(g) /\ g # << >> /\ Len(g) = Len(f) - 1 /\ DOMAIN g = 1..(Len(f) - 1)
      /\ DOMAIN f = 1..Len(f) /\ Len(f) \in Nat
      /\ \A k \in i..(Len(f) - 1) : g[k] = f[k + 1]
    BY RemovalMakes
<1>2. /\ i + 1 \in 1..Len(f) /\ i \in 1..(Len(f) - 1)
      /\ i \in i..(Len(f) - 1) /\ Len(f) - 1 \in i..(Len(f) - 1)
      /\ (Len(f) - 1) + 1 = Len(f) /\ Len(f) - 1 \in 1..(Len(f) - 1)
    BY <1>1
<1>3. g[i] = f[i + 1] /\ g[Len(f) - 1] = f[Len(f)]
    BY <1>1, <1>2
<1>4. ASSUME Verifies(f), Verifies(g) PROVE FALSE
    <2>1. f[i + 1].sequence = i + 1 /\ g[i].sequence = i
        BY <1>1, <1>2, <1>4 DEF Verifies, LineVerifies
    <2> QED
        BY <1>2, <1>3, <2>1
<1>5. ASSUME Verifies(g) PROVE SameEnd(f, g)
    <2>1. g[Len(f) - 1] # Torn
        BY <1>1, <1>2, <1>5 DEF Verifies, LineVerifies
    <2> QED
        BY <1>1, <1>3, <2>1 DEF SameEnd
<1> QED
    BY <1>1, <1>4, <1>5

LEMMA DamageShows ==
    ASSUME NEW f, IsFile(f), NEW g \in Damaged(f), g # f
    PROVE  /\ Verifies(f) => ~Verifies(g)
           /\ Signed(f) /\ Numbered(f) /\ Verifies(g) => f # << >> /\ SameEnd(f, g)
<1>1. Verifies(f) => Signed(f) /\ Numbered(f)
    BY VerifiedIsOrdered
<1>2. ASSUME NEW i \in DOMAIN f, NEW e, f[i] # Torn, g = Edited(f, i, e), Signed(f)
      PROVE  ~Verifies(g)
    <2>1. f[i].event_hash = HashOf(f[i])
        BY <1>2 DEF Signed
    <2> QED
        BY <1>2, <2>1, EditShows
<1>3. ASSUME NEW i \in DOMAIN f, NEW j \in DOMAIN f, g = RepeatLine(f, i, j), Numbered(f)
      PROVE  ~Verifies(g)
    BY <1>3, RepeatShows
<1>4. ASSUME NEW i \in DOMAIN f, NEW j \in DOMAIN f, Numbered(f),
             g = Swapped(f, i, j)
      PROVE  ~Verifies(g)
    BY <1>4, SwapShows
<1>5. ASSUME NEW i \in 1..(Len(f) - 1), g = RemoveLine(f, i)
      PROVE  /\ Verifies(f) => ~Verifies(g)
             /\ Verifies(g) => f # << >> /\ SameEnd(f, g)
    <2>1. f # << >>
        OBVIOUS
    <2> QED
        BY <1>5, <2>1, RemovalShows
<1>6. CASE \E i \in DOMAIN f, e \in Events : f[i] # Torn /\ g = Edited(f, i, e)
    BY <1>1, <1>2, <1>6
<1>7. CASE \E i, j \in DOMAIN f : g = RepeatLine(f, i, j)
    BY <1>1, <1>3, <1>7
<1>8. CASE \E i, j \in DOMAIN f : g = Swapped(f, i, j)
    BY <1>1, <1>4, <1>8
<1>9. CASE \E i \in 1..(Len(f) - 1) : g = RemoveLine(f, i)
    BY <1>5, <1>9
<1> QED
    BY <1>6, <1>7, <1>8, <1>9 DEF Damaged, Edited, Swapped

LEMMA DamageMakes ==
    ASSUME NEW f, IsFile(f), NEW g \in Damaged(f)
    PROVE  IsFile(g) /\ g # << >>
<1>1. CASE \E i \in DOMAIN f, e \in Events : f[i] # Torn /\ g = Edited(f, i, e)
    BY <1>1, EditShows
<1>2. CASE \E i, j \in DOMAIN f : g = RepeatLine(f, i, j)
    BY <1>2, RepeatMakes
<1>3. CASE \E i, j \in DOMAIN f : g = Swapped(f, i, j)
    BY <1>3, SwapMakes
<1>4. CASE \E i \in 1..(Len(f) - 1) : g = RemoveLine(f, i)
    BY <1>4, RemovalMakes
<1> QED
    BY <1>1, <1>2, <1>3, <1>4 DEF Damaged, Edited, Swapped

-----------------------------------------------------------------------------
(* One write, whole or in part.                                            *)
LEMMA NewLineIsRecord ==
    ASSUME NEW w, NEW e
    PROVE  /\ IsRecord(NewLine(w, e)) /\ IsLine(NewLine(w, e))
           /\ NewLine(w, e).sequence = sequence[w] + 1
           /\ NewLine(w, e).previous_hash = last[w]
           /\ NewLine(w, e).event_hash = HashOf(NewLine(w, e))
<1>1. IsRecord(NewLine(w, e))
    BY DEF IsRecord, NewLine, Line, Fields
<1> QED
    BY <1>1 DEF IsLine, NewLine, Line, HashOf

LEMMA LineLands ==
    ASSUME Types, TornIsNoLine, newline, NEW w \in Writers, NEW e, file' = Put(NewLine(w, e))
    PROVE  /\ file' = Append(file, NewLine(w, e)) /\ IsFile(file')
           /\ Len(file') = Len(file) + 1 /\ Len(file) \in Nat
           /\ Verifies(file') <=> /\ Verifies(file)
                                  /\ sequence[w] = Len(file)
                                  /\ last[w] = PreviousHash(file, Len(file) + 1)
           /\ PreviousHash(file', Len(file') + 1) = NewLine(w, e).event_hash
<1> DEFINE line == NewLine(w, e)
<1>1. /\ IsLine(line) /\ line # Torn
      /\ line.sequence = sequence[w] + 1 /\ line.previous_hash = last[w]
      /\ line.event_hash = HashOf(line)
    BY NewLineIsRecord DEF TornIsNoLine, NewLine
<1>2. file' = Append(file, line) /\ IsFile(file) /\ sequence[w] \in Nat
    BY DEF Put, Types
<1> HIDE DEF line
<1>3. /\ IsFile(file') /\ Len(file') = Len(file) + 1 /\ file'[Len(file) + 1] = line
      /\ Len(file) \in Nat
    BY <1>1, <1>2, AppendedFile
<1>4. Verifies(file') <=> /\ Verifies(file)
                          /\ line.sequence = Len(file) + 1
                          /\ line.previous_hash = PreviousHash(file, Len(file) + 1)
    BY <1>1, <1>2, AppendedVerifies
<1>5. line.sequence = Len(file) + 1 <=> sequence[w] = Len(file)
    BY <1>1, <1>2, <1>3
<1>6. PreviousHash(file', Len(file') + 1) = line.event_hash
    BY <1>1, <1>3 DEF PreviousHash
<1> QED
    BY <1>1, <1>2, <1>3, <1>4, <1>5, <1>6 DEF line

(* Whatever a write leaves, a file that verifies with it verified before,  *)
(* and has lost no line.                                                   *)
LEMMA PutKeeps ==
    ASSUME Types, NEW line, IsLine(line), Verifies(Put(line))
    PROVE  /\ Verifies(file) /\ line \in {Put(line)[i] : i \in DOMAIN Put(line)}
           /\ \A i \in DOMAIN file : \E j \in DOMAIN Put(line) : Put(line)[j] = file[i]
<1>1. Put(line) = Append(file, line) /\ IsFile(file)
    BY PutFile DEF Types
<1>2. Verifies(file)
    BY <1>1, AppendedVerifies
<1>3. /\ DOMAIN Append(file, line) = 1..(Len(file) + 1) /\ Len(file) \in Nat
      /\ DOMAIN file = 1..Len(file)
      /\ Append(file, line)[Len(file) + 1] = line
      /\ \A i \in DOMAIN file : Append(file, line)[i] = file[i]
    BY <1>1, AppendedFile
<1>4. \A i \in DOMAIN file : i \in 1..(Len(file) + 1)
    BY <1>3
<1> QED
    BY <1>1, <1>2, <1>3, <1>4

LEMMA PartlyWrittenKeeps ==
    ASSUME Types, NEW w \in Writers, NEW e, PartlyWritten(w, e)
    PROVE  /\ IsFile(file') /\ (newline' \/ file' # << >>) /\ {newline', cut'} \subseteq BOOLEAN
           /\ Verifies(file') =>
                 /\ Verifies(file)
                 /\ \A i \in DOMAIN file : \E j \in DOMAIN file' : file'[j] = file[i]
<1>1. CASE UNCHANGED <<disk, cut>>
    BY <1>1 DEF disk, Types
<1>2. ASSUME NEW line, IsLine(line), file' = Put(line), {newline', cut'} \subseteq BOOLEAN
      PROVE  /\ IsFile(file') /\ (newline' \/ file' # << >>) /\ {newline', cut'} \subseteq BOOLEAN
             /\ Verifies(file') =>
                   /\ Verifies(file)
                   /\ \A i \in DOMAIN file : \E j \in DOMAIN file' : file'[j] = file[i]
    BY <1>2, PutFile, PutKeeps
<1>3. IsLine(Torn) /\ IsLine(NewLine(w, e))
    BY NewLineIsRecord DEF IsLine
<1>4. CASE \E line \in {Torn, NewLine(w, e)} :
              file' = Put(line) /\ newline' = FALSE /\ cut' = TRUE
    BY <1>2, <1>3, <1>4
<1>5. CASE file' = Put(NewLine(w, e)) /\ newline' = TRUE /\ UNCHANGED cut
    BY <1>2, <1>3, <1>5 DEF Types
<1> QED
    BY <1>1, <1>4, <1>5 DEF PartlyWritten

-----------------------------------------------------------------------------
LEMMA InitTypes == Init => Types
<1> SUFFICES ASSUME Init PROVE Types
    OBVIOUS
<1>1. IsFile(file)
    BY DEF Init, IsFile
<1>2. newline /\ {newline, cut, overlapped} \subseteq BOOLEAN
    BY DEF Init
<1>3. /\ writer \in [Writers -> {"open", "refused"}]
      /\ sequence \in [Writers -> Nat]
      /\ last = [w \in Writers |-> last[w]]
    BY DEF Init
<1>4. behind \subseteq Writers /\ {failures, restarts, damage} \subseteq Nat
    BY DEF Init
<1> QED
    BY <1>1, <1>2, <1>3, <1>4 DEF Types

LEMMA RestartTypes ==
    ASSUME Types, NEW w \in Writers, Restart(w)
    PROVE  Types'
<1>1. /\ IsFile(file') /\ (newline' \/ file' # << >>) /\ {newline', cut'} \subseteq BOOLEAN
    <2>1. CASE UNCHANGED <<disk, cut>>
        BY <2>1 DEF disk, Types
    <2>2. CASE \E e \in Events : PartlyWritten(w, e)
        BY <2>2, PartlyWrittenKeeps
    <2> QED
        BY <2>1, <2>2 DEF Restart
<1>2. Len(file') \in Nat
    BY <1>1 DEF IsFile
<1>3. /\ writer' \in [Writers -> {"open", "refused"}] /\ sequence' \in [Writers -> Nat]
      /\ last' = [v \in Writers |-> last'[v]]
    BY <1>2 DEF Restart, Types
<1>4. /\ behind' \subseteq Writers /\ overlapped' \in BOOLEAN
      /\ {failures', restarts', damage'} \subseteq Nat
    BY DEF Restart, Types
<1> QED
    BY <1>1, <1>3, <1>4 DEF Types

LEMMA TypesStep ==
    ASSUME Types, [Next]_vars
    PROVE  Types'
<1>1. ASSUME NEW w \in Writers, NEW e, AppendLine(w, e) PROVE Types'
    <2>1. IsFile(file')
        BY <1>1, NewLineIsRecord, PutFile DEF AppendLine, Writes
    <2>2. /\ sequence' \in [Writers -> Nat] /\ last' = [v \in Writers |-> last'[v]]
          /\ writer' \in [Writers -> {"open", "refused"}]
        <3>1. \A v \in Writers : sequence[v] + 1 \in Nat
            BY DEF Types
        <3>2. sequence' = [sequence EXCEPT ![w] = @ + 1] /\ writer' = writer
            BY <1>1 DEF AppendLine, Writes
        <3>3. last' = [last EXCEPT ![w] = NewLine(w, e).event_hash]
            BY <1>1 DEF AppendLine
        <3> QED
            BY <3>1, <3>2, <3>3 DEF Types
    <2>3. /\ newline' /\ newline' \in BOOLEAN /\ cut' \in BOOLEAN
          /\ behind' \subseteq Writers /\ overlapped' \in BOOLEAN
          /\ {failures', restarts', damage'} \subseteq Nat
        BY <1>1 DEF AppendLine, Writes, Overtakes, meta, Types
    <2> QED
        BY <2>1, <2>2, <2>3 DEF Types
<1>2. ASSUME NEW w \in Writers, NEW e, AppendFails(w, e) PROVE Types'
    <2>1. IsFile(file') /\ (newline' \/ file' # << >>) /\ {newline', cut'} \subseteq BOOLEAN
        BY <1>2, PartlyWrittenKeeps DEF AppendFails
    <2>2. /\ UNCHANGED <<writer, sequence, last>>
          /\ behind' \subseteq Writers /\ overlapped' \in BOOLEAN
          /\ {failures', restarts', damage'} \subseteq Nat
        BY <1>2 DEF AppendFails, Overtakes, Fails, object, Types
    <2> QED
        BY <2>1, <2>2 DEF Types
<1>3. ASSUME NEW w \in Writers, Restart(w) PROVE Types'
    BY <1>3, RestartTypes
<1>4. CASE Damage
    <2>1. IsFile(file') /\ file' # << >>
        BY <1>4, DamageMakes DEF Damage, Types
    <2> QED
        BY <1>4, <2>1 DEF Damage, object, Types
<1>5. CASE UNCHANGED vars
    BY <1>5 DEF vars, disk, object, meta, Types
<1> QED
    BY <1>1, <1>2, <1>3, <1>4, <1>5 DEF Next, Finished

(* Every file the program makes is a sequence of lines.                    *)
LEMMA TypesHold == Spec => []Types
<1>1. Init => Types
    BY InitTypes
<1>2. Types /\ [Next]_vars => Types'
    BY TypesStep
<1> QED
    BY <1>1, <1>2, PTL DEF Spec

(* Whatever has been written so far, and however it went: an edited,       *)
(* inserted, reordered or dropped record makes a file that verified one    *)
(* that does not (AuditLog.verify, audit.py:77-97).                        *)
THEOREM DamageAlwaysShows == Spec => DamageIsDetected
<1>1. Types /\ [Next]_vars => [damage' # damage /\ Verifies(file) => ~Verifies(file')]_vars
    <2> SUFFICES ASSUME Types, Next, damage' # damage, Verifies(file)
                 PROVE  ~Verifies(file')
        OBVIOUS
    <2>1. Damage
        BY DEF Next, AppendLine, Writes, AppendFails, Fails, Restart, Finished, meta, vars
    <2> QED
        BY <2>1, DamageShows DEF Damage, Types
<1> QED
    BY <1>1, TypesHold, PTL DEF Spec, DamageIsDetected

-----------------------------------------------------------------------------
LEMMA KeptStep ==
    ASSUME Types, TornIsNoLine, Kept, [Next]_vars
    PROVE  Kept'
<1> SUFFICES ASSUME damage' = 0, Verifies(file'), NEW line \in acked'
             PROVE  \E j \in DOMAIN file' : file'[j] = line
    BY DEF Kept
<1> DEFINE Stays == /\ Verifies(file)
                    /\ \A i \in DOMAIN file : \E j \in DOMAIN file' : file'[j] = file[i]
<1>1. ASSUME Stays, damage = 0, line \in acked
      PROVE  \E j \in DOMAIN file' : file'[j] = line
    <2>1. PICK i \in DOMAIN file : file[i] = line
        BY <1>1 DEF Kept
    <2> QED
        BY <1>1, <2>1
<1>2. ASSUME NEW w \in Writers, NEW e, AppendLine(w, e)
      PROVE  \E j \in DOMAIN file' : file'[j] = line
    <2>1. /\ file' = Put(NewLine(w, e)) /\ damage' = damage
          /\ acked' = acked \cup {NewLine(w, e)}
        BY <1>2 DEF AppendLine, Writes, meta
    <2>2. Stays /\ NewLine(w, e) \in {file'[i] : i \in DOMAIN file'}
        BY <2>1, NewLineIsRecord, PutKeeps
    <2> QED
        BY <1>1, <2>1, <2>2
<1>3. ASSUME NEW w \in Writers, NEW e, AppendFails(w, e)
      PROVE  \E j \in DOMAIN file' : file'[j] = line
    BY <1>1, <1>3, PartlyWrittenKeeps DEF AppendFails, Fails
<1>4. ASSUME NEW w \in Writers, Restart(w)
      PROVE  \E j \in DOMAIN file' : file'[j] = line
    <2>1. Stays
        <3>1. CASE UNCHANGED <<disk, cut>>
            BY <3>1 DEF disk
        <3>2. CASE \E e \in Events : PartlyWritten(w, e)
            BY <3>2, PartlyWrittenKeeps
        <3> QED
            BY <1>4, <3>1, <3>2 DEF Restart
    <2>2. acked' = acked /\ damage' = damage
        BY <1>4 DEF Restart
    <2> QED
        BY <1>1, <2>1, <2>2
<1>5. ~Damage
    BY DEF Damage, Types
<1>6. CASE UNCHANGED vars
    BY <1>1, <1>6 DEF vars, disk, meta
<1> QED
    BY <1>2, <1>3, <1>4, <1>5, <1>6 DEF Next, Finished

-----------------------------------------------------------------------------
(* The hash of the last line stands for the whole file: two files that     *)
(* verify and end alike agree on every line that matters here.             *)
LastHash(f) == PreviousHash(f, Len(f) + 1)
Holds(f, lines) == \A line \in lines : \E i \in DOMAIN f : f[i] = line
Covers(hash, lines) ==
    \A f : IsFile(f) /\ Verifies(f) /\ LastHash(f) = hash => Holds(f, lines)

LEMMA EndOfVerified ==
    ASSUME NEW f, IsFile(f), Verifies(f), NEW n, NEW p, NEW e, LastHash(f) = Hash(n, p, e)
    PROVE  /\ f # << >> /\ f[Len(f)] = Line(n, p, e) /\ Len(f) \in DOMAIN f
           /\ \E g : /\ IsFile(g) /\ Verifies(g) /\ LastHash(g) = p
                     /\ \A i \in DOMAIN g : i \in DOMAIN f /\ f[i] = g[i]
<1> DEFINE S == {f[i] : i \in DOMAIN f}
           m == Len(f) - 1
           g == SubSeq(f, 1, m)
<1>1. f \in Seq(S) /\ DOMAIN f = 1..Len(f) /\ Len(f) \in Nat /\ \A i \in DOMAIN f : IsLine(f[i])
    BY DEF IsFile
<1> HIDE DEF S
<1>2. f # << >>
    <2>1. Genesis # Hash(n, p, e)
        BY DEF Genesis, Hash
    <2>2. f = << >> => LastHash(f) = Genesis
        BY DEF LastHash, PreviousHash
    <2> QED
        BY <2>1, <2>2
<1>3. Len(f) \in 1..Len(f) /\ m \in Nat /\ Len(f) = m + 1
      /\ (Len(f) + 1) - 1 = Len(f) /\ Len(f) + 1 # 1
    BY <1>1, <1>2, EmptySeq
<1>4. LineVerifies(f, Len(f))
    BY <1>1, <1>3 DEF Verifies
<1>5. f[Len(f)] # Torn /\ f[Len(f)].event_hash = Hash(n, p, e)
    BY <1>3, <1>4 DEF LineVerifies, LastHash, PreviousHash
<1>6. f[Len(f)].sequence = n /\ f[Len(f)].previous_hash = p /\ f[Len(f)].event = e
    BY <1>4, <1>5 DEF LineVerifies, HashOf, Hash
<1>7. f[Len(f)] = Line(n, p, e)
    <2>1. IsRecord(f[Len(f)]) /\ IsRecord(Line(n, p, e))
        BY <1>1, <1>3, <1>5 DEF IsLine, IsRecord, Line, Fields
    <2>2. \A field \in Fields : f[Len(f)][field] = Line(n, p, e)[field]
        BY <1>5, <1>6 DEF Line, Fields
    <2> QED
        BY <2>1, <2>2 DEF IsRecord
<1>8. /\ g \in Seq(S) /\ Len(g) = m /\ DOMAIN g = 1..m
      /\ \A i \in 1..m : g[i] = f[i]
    <2>1. \A i \in 1..m : f[i] \in S
        BY <1>1, <1>3
    <2> HIDE DEF m
    <2>2. g \in Seq(S) /\ Len(g) = m /\ \A i \in 1..m : g[i] = f[i]
        BY <1>1, <1>3, <2>1, SubSeqProperties
    <2> QED
        BY <2>2
<1> HIDE DEF g
<1>9. \A i \in DOMAIN g : i \in DOMAIN f /\ g[i] = f[i]
    BY <1>1, <1>3, <1>8
<1>10. IsFile(g)
    BY <1>1, <1>8, <1>9, LinesMakeFile
<1>11. ASSUME NEW i \in 1..(m + 1) PROVE PreviousHash(g, i) = PreviousHash(f, i)
    <2>1. i = 1 \/ i - 1 \in 1..m
        BY <1>3
    <2> QED
        BY <1>8, <2>1 DEF PreviousHash
<1>12. Verifies(g)
    <2>1. ASSUME NEW i \in DOMAIN g PROVE LineVerifies(g, i)
        <3>1. i \in 1..(m + 1) /\ LineVerifies(f, i)
            BY <1>3, <1>8, <1>9 DEF Verifies
        <3> QED
            BY <1>9, <1>11, <3>1 DEF LineVerifies
    <2> QED
        BY <2>1 DEF Verifies
<1>13. LastHash(g) = p
    <2>1. /\ PreviousHash(g, m + 1) = PreviousHash(f, m + 1)
          /\ f[Len(f)].previous_hash = PreviousHash(f, m + 1)
        BY <1>3, <1>4, <1>11 DEF LineVerifies
    <2> QED
        BY <1>6, <1>8, <2>1 DEF LastHash
<1> QED
    BY <1>1, <1>2, <1>3, <1>7, <1>9, <1>10, <1>12, <1>13

(* A line after a hash that covers some lines covers them and itself.      *)
LEMMA CoverGrows ==
    ASSUME NEW n, NEW p, NEW e, NEW lines, Covers(p, lines)
    PROVE  Covers(Hash(n, p, e), lines \cup {Line(n, p, e)})
<1> SUFFICES ASSUME NEW f, IsFile(f), Verifies(f), LastHash(f) = Hash(n, p, e),
                    NEW line \in lines \cup {Line(n, p, e)}
             PROVE  \E i \in DOMAIN f : f[i] = line
    BY DEF Covers, Holds
<1>1. f[Len(f)] = Line(n, p, e) /\ Len(f) \in DOMAIN f
    BY EndOfVerified
<1>2. PICK g : /\ IsFile(g) /\ Verifies(g) /\ LastHash(g) = p
               /\ \A i \in DOMAIN g : i \in DOMAIN f /\ f[i] = g[i]
    BY EndOfVerified
<1>3. Holds(g, lines)
    BY <1>2 DEF Covers
<1>4. CASE line \in lines
    BY <1>2, <1>3, <1>4 DEF Holds
<1>5. CASE line = Line(n, p, e)
    BY <1>1, <1>5
<1> QED
    BY <1>4, <1>5

(* Without damage, every line has its own hash and, unless one is torn, no *)
(* line and no writer has counted further than the lines there are.        *)
Whole(f) == \A i \in DOMAIN f : f[i] # Torn
Ordered ==
    damage = 0 =>
        /\ Signed(file) /\ Numbered(file)
        /\ Whole(file) => \A w \in Writers : sequence[w] <= Len(file)

(* The last hash of a writer that has seen the whole file, and the one the *)
(* file ends in, cover every acknowledged line.                            *)
Ends(f) == f # << >> => f[Len(f)] # Torn
Traced ==
    damage <= 1 /\ ~overlapped =>
        /\ \A w \in Writers \ behind : writer[w] = "open" => Covers(last[w], acked)
        /\ (damage = 0 \/ Verifies(file)) /\ Ends(file) => Covers(LastHash(file), acked)

(* A write adds the line, or spoils the end of the file.                   *)
Grown(w, e) == file' = Append(file, NewLine(w, e))
Spoilt ==
    /\ file' # << >> /\ Len(file') \in DOMAIN file' /\ file'[Len(file')] = Torn
    /\ \A i \in DOMAIN file' : file'[i] = Torn \/ (i \in DOMAIN file /\ file'[i] = file[i])

LEMMA PutGrowsOrSpoils ==
    ASSUME Types, NEW w \in Writers, NEW e, NEW line \in {Torn, NewLine(w, e)}, file' = Put(line)
    PROVE  Grown(w, e) \/ Spoilt
<1>1. IsFile(file) /\ (newline \/ file # << >>) /\ newline \in BOOLEAN
    BY DEF Types
<1>2. CASE ~newline
    <2> DEFINE g == [file EXCEPT ![Len(file)] = Torn]
    <2>1. file' = g
        BY <1>2 DEF Put
    <2>2. /\ DOMAIN g = 1..Len(file) /\ Len(g) = Len(file) /\ g[Len(file)] = Torn
          /\ Len(file) \in 1..Len(file)
        BY <1>1, <1>2, TornFile
    <2>3. DOMAIN file = 1..Len(file) /\ \A i \in DOMAIN file : i # Len(file) => g[i] = file[i]
        BY <1>1, <2>2 DEF IsFile
    <2>4. g # << >>
        BY <2>2
    <2> HIDE DEF g
    <2> QED
        BY <2>1, <2>2, <2>3, <2>4 DEF Spoilt
<1>3. CASE newline /\ line = Torn
    <2>1. file' = Append(file, Torn)
        BY <1>3 DEF Put
    <2>2. IsLine(Torn)
        BY DEF IsLine
    <2>3. /\ Len(file') = Len(file) + 1 /\ file'[Len(file) + 1] = Torn
          /\ \A i \in DOMAIN file : file'[i] = file[i]
          /\ DOMAIN file' = 1..(Len(file) + 1) /\ DOMAIN file = 1..Len(file) /\ Len(file) \in Nat
        BY <1>1, <2>1, <2>2, AppendedFile
    <2>4. file' # << >> /\ Len(file) + 1 \in DOMAIN file'
        BY <2>3
    <2>5. \A i \in DOMAIN file' : i = Len(file) + 1 \/ i \in DOMAIN file
        BY <2>3
    <2> QED
        BY <2>3, <2>4, <2>5 DEF Spoilt
<1>4. CASE newline /\ line = NewLine(w, e)
    BY <1>4 DEF Put, Grown
<1> QED
    BY <1>1, <1>2, <1>3, <1>4

LEMMA PartlyGrowsOrSpoils ==
    ASSUME Types, NEW w \in Writers, NEW e, PartlyWritten(w, e)
    PROVE  UNCHANGED file \/ Grown(w, e) \/ Spoilt
<1>1. \/ UNCHANGED disk
      \/ \E line \in {Torn, NewLine(w, e)} : file' = Put(line)
    BY DEF PartlyWritten
<1> QED
    BY <1>1, PutGrowsOrSpoils DEF disk

(* What the counters must not do while the file changes.                   *)
LEMMA StaysOrdered ==
    ASSUME Types, TornIsNoLine, Ordered, damage = 0, NEW w \in Writers, NEW e,
           UNCHANGED file \/ Grown(w, e) \/ Spoilt
    PROVE  /\ Signed(file') /\ Numbered(file')
           /\ Whole(file') => Whole(file) /\ Len(file) <= Len(file')
           /\ Grown(w, e) => Len(file') = Len(file) + 1 /\ Len(file) \in Nat
<1>1. /\ Signed(file) /\ Numbered(file) /\ IsFile(file) /\ sequence[w] \in Nat /\ Len(file) \in Nat
      /\ Whole(file) => sequence[w] <= Len(file)
    BY DEF Ordered, Types, IsFile
<1>2. CASE UNCHANGED file
    <2>1. ~Grown(w, e)
        BY <1>1, <1>2, AppendedFile, NewLineIsRecord DEF Grown
    <2> QED
        BY <1>1, <1>2, <2>1
<1>3. CASE Grown(w, e)
    <2> DEFINE line == NewLine(w, e)
    <2>1. /\ line # Torn /\ IsLine(line) /\ line.event_hash = HashOf(line)
          /\ line.sequence = sequence[w] + 1
        BY NewLineIsRecord DEF TornIsNoLine, NewLine
    <2>2. file' = Append(file, line)
        BY <1>3 DEF Grown
    <2> HIDE DEF line
    <2>3. /\ Len(file') = Len(file) + 1 /\ file'[Len(file) + 1] = line
          /\ \A i \in DOMAIN file : file'[i] = file[i]
          /\ DOMAIN file' = 1..(Len(file) + 1) /\ DOMAIN file = 1..Len(file)
        BY <1>1, <2>1, <2>2, AppendedFile
    <2>4. \A i \in DOMAIN file' : i = Len(file) + 1 \/ i \in DOMAIN file
        BY <1>1, <2>3
    <2>5. Signed(file')
        BY <1>1, <2>1, <2>3, <2>4 DEF Signed
    <2>6. Whole(file') => Whole(file)
        BY <1>1, <2>3 DEF Whole
    <2>7. ASSUME Whole(file') PROVE \A i \in DOMAIN file' : file'[i].sequence \in 1..i
        <3>1. line.sequence \in 1..(Len(file) + 1)
            BY <1>1, <2>1, <2>6, <2>7
        <3>2. \A i \in DOMAIN file : file[i].sequence \in 1..i
            BY <1>1, <2>6, <2>7 DEF Numbered, Whole
        <3> QED
            BY <2>3, <2>4, <3>1, <3>2
    <2>8. Numbered(file')
        BY <2>7 DEF Numbered, Whole
    <2> QED
        BY <1>1, <2>3, <2>5, <2>6, <2>8
<1>4. CASE Spoilt
    <2>1. ~Whole(file')
        BY <1>4 DEF Spoilt, Whole
    <2>2. Numbered(file')
        BY <2>1 DEF Numbered, Whole
    <2>3. Signed(file')
        BY <1>1, <1>4 DEF Spoilt, Signed
    <2>4. ~Grown(w, e)
        <3>1. Grown(w, e) => file'[Len(file')] = NewLine(w, e)
            BY <1>1, AppendedFile, NewLineIsRecord DEF Grown
        <3> QED
            BY <1>4, <3>1 DEF Spoilt, TornIsNoLine, NewLine
    <2> QED
        BY <2>1, <2>2, <2>3, <2>4
<1> QED
    BY <1>2, <1>3, <1>4

LEMMA OrderedStep ==
    ASSUME Types, Types', TornIsNoLine, Ordered, [Next]_vars
    PROVE  Ordered'
<1> SUFFICES ASSUME damage' = 0
             PROVE  /\ Signed(file') /\ Numbered(file')
                    /\ Whole(file') => \A v \in Writers : sequence'[v] <= Len(file')
    BY DEF Ordered, Signed, Numbered, Whole, HashOf
<1>1. \A v \in Writers : sequence[v] \in Nat
    BY DEF Types
<1>2. Len(file) \in Nat /\ Len(file') \in Nat
    BY DEF Types, IsFile
<1>3. damage = 0 /\ Whole(file) => \A v \in Writers : sequence[v] <= Len(file)
    BY DEF Ordered
<1>4. ASSUME NEW w \in Writers, NEW e, AppendLine(w, e)
      PROVE  /\ Signed(file') /\ Numbered(file')
             /\ Whole(file') => \A v \in Writers : sequence'[v] <= Len(file')
    <2>1. /\ file' = Put(NewLine(w, e)) /\ damage' = damage
          /\ sequence' = [sequence EXCEPT ![w] = @ + 1]
        BY <1>4 DEF AppendLine, Writes, meta
    <2>2. Grown(w, e) \/ Spoilt
        BY <2>1, PutGrowsOrSpoils
    <2>3. /\ Signed(file') /\ Numbered(file')
          /\ Whole(file') => Whole(file)
          /\ Grown(w, e) => Len(file') = Len(file) + 1
        BY <2>1, <2>2, StaysOrdered
    <2>4. Whole(file') => Grown(w, e)
        BY <2>2 DEF Spoilt, Whole
    <2>5. \A v \in Writers : sequence'[v] <= sequence[v] + 1
        BY <1>1, <2>1 DEF Types
    <2>6. \A v \in Writers : sequence'[v] \in Nat
        BY DEF Types
    <2> QED
        BY <1>1, <1>2, <1>3, <2>1, <2>3, <2>4, <2>5, <2>6
<1>5. ASSUME NEW w \in Writers, NEW e, AppendFails(w, e)
      PROVE  /\ Signed(file') /\ Numbered(file')
             /\ Whole(file') => \A v \in Writers : sequence'[v] <= Len(file')
    <2>1. damage = 0 /\ sequence' = sequence
        BY <1>5 DEF AppendFails, Fails, object
    <2>2. UNCHANGED file \/ Grown(w, e) \/ Spoilt
        BY <1>5, PartlyGrowsOrSpoils DEF AppendFails
    <2>3. /\ Signed(file') /\ Numbered(file')
          /\ Whole(file') => Whole(file) /\ Len(file) <= Len(file')
        BY <2>1, <2>2, StaysOrdered
    <2> QED
        BY <1>1, <1>2, <1>3, <2>1, <2>3
<1>6. ASSUME NEW w \in Writers, Restart(w)
      PROVE  /\ Signed(file') /\ Numbered(file')
             /\ Whole(file') => \A v \in Writers : sequence'[v] <= Len(file')
    <2>1. /\ damage = 0
          /\ sequence' = [sequence EXCEPT ![w] = Len(file')] \/ sequence' = sequence
        BY <1>6 DEF Restart
    <2>2. PICK e : UNCHANGED file \/ Grown(w, e) \/ Spoilt
        BY <1>6, PartlyGrowsOrSpoils DEF Restart, disk
    <2>3. /\ Signed(file') /\ Numbered(file')
          /\ Whole(file') => Whole(file) /\ Len(file) <= Len(file')
        BY <2>1, <2>2, StaysOrdered
    <2>4. \A v \in Writers : sequence'[v] = sequence[v] \/ sequence'[v] = Len(file')
        BY <2>1 DEF Types
    <2> QED
        BY <1>1, <1>2, <1>3, <2>1, <2>3, <2>4
<1>7. ~Damage
    BY DEF Damage, Types
<1>8. CASE UNCHANGED vars
    BY <1>8 DEF vars, disk, object, meta, Ordered
<1> QED
    BY <1>4, <1>5, <1>6, <1>7, <1>8 DEF Next, Finished

(* Where the file ends after a write by one that has seen the whole file.  *)
LEMMA EndStaysCovered ==
    ASSUME Types, TornIsNoLine, damage <= 1, ~overlapped, Traced, NEW w \in Writers, NEW e,
           UNCHANGED <<file, acked>> \/ Grown(w, e) \/ Spoilt,
           Grown(w, e) => Covers(last[w], acked) /\ acked' \subseteq acked \cup {NewLine(w, e)},
           damage' = damage, damage' = 0 \/ Verifies(file'), Ends(file')
    PROVE  Covers(LastHash(file'), acked')
<1>1. CASE UNCHANGED <<file, acked>>
    BY <1>1 DEF Traced
<1>2. CASE Grown(w, e)
    <2>1. Covers(Hash(sequence[w] + 1, last[w], e), acked \cup {NewLine(w, e)})
        BY <1>2, CoverGrows DEF NewLine
    <2>2. /\ Len(file') = Len(file) + 1 /\ file'[Len(file) + 1] = NewLine(w, e)
          /\ Len(file) \in Nat
        BY <1>2, NewLineIsRecord, AppendedFile DEF Grown, Types
    <2>3. LastHash(file') = NewLine(w, e).event_hash
        BY <2>2 DEF LastHash, PreviousHash, TornIsNoLine, NewLine
    <2>4. LastHash(file') = Hash(sequence[w] + 1, last[w], e)
        BY <2>3 DEF NewLine, Line
    <2> QED
        BY <1>2, <2>1, <2>4 DEF Covers, Holds
<1>3. CASE Spoilt
    BY <1>3 DEF Spoilt, Ends
<1> QED
    BY <1>1, <1>2, <1>3

LEMMA AppendTraces ==
    ASSUME Types, TornIsNoLine, Traced, damage <= 1, ~overlapped',
           NEW w \in Writers, NEW e, AppendLine(w, e)
    PROVE  /\ \A v \in Writers \ behind' : writer'[v] = "open" => Covers(last'[v], acked')
           /\ (damage' = 0 \/ Verifies(file')) /\ Ends(file') => Covers(LastHash(file'), acked')
<1>1. /\ writer[w] = "open" /\ file' = Put(NewLine(w, e)) /\ newline' /\ damage' = damage
      /\ acked' = acked \cup {NewLine(w, e)}
      /\ last'[w] = Hash(sequence[w] + 1, last[w], e)
    BY DEF AppendLine, Writes, CanAppend, meta, Types, NewLine, Line
<1>2. disk' # disk
    <2>1. CASE newline
        <3>1. Len(file') = Len(file) + 1 /\ Len(file) \in Nat
            BY <1>1, <2>1, LineLands
        <3> QED
            BY <3>1 DEF disk
    <2>2. CASE ~newline
        BY <1>1, <2>2 DEF disk
    <2> QED
        BY <2>1, <2>2
<1>3. ~overlapped /\ w \notin behind /\ behind' = behind \cup (Writers \ {w})
    BY <1>2 DEF AppendLine, Writes, Overtakes
<1>4. Covers(last[w], acked)
    BY <1>1, <1>3 DEF Traced
<1>5. Covers(last'[w], acked')
    BY <1>1, <1>4, CoverGrows DEF NewLine
<1>6. Grown(w, e) \/ Spoilt
    BY <1>1, PutGrowsOrSpoils
<1> QED
    BY <1>1, <1>3, <1>4, <1>5, <1>6, EndStaysCovered

LEMMA FailureTraces ==
    ASSUME Types, TornIsNoLine, Traced, damage <= 1, ~overlapped',
           NEW w \in Writers, NEW e, AppendFails(w, e)
    PROVE  /\ \A v \in Writers \ behind' : writer'[v] = "open" => Covers(last'[v], acked')
           /\ (damage' = 0 \/ Verifies(file')) /\ Ends(file') => Covers(LastHash(file'), acked')
<1>1. /\ writer[w] = "open" /\ PartlyWritten(w, e) /\ damage' = damage
      /\ acked' = acked /\ writer' = writer /\ last' = last
    BY DEF AppendFails, CanAppend, Fails, object
<1>2. /\ ~overlapped
      /\ \/ disk' = disk /\ behind' = behind
         \/ w \notin behind /\ behind' = behind \cup (Writers \ {w})
    BY DEF AppendFails, Overtakes
<1>3. \A v \in Writers \ behind : writer[v] = "open" => Covers(last[v], acked)
    BY <1>2 DEF Traced
<1>4. UNCHANGED file \/ Grown(w, e) \/ Spoilt
    BY <1>1, PartlyGrowsOrSpoils
<1>5. CASE w \in behind
    <2>1. UNCHANGED <<file, acked>> /\ behind' = behind
        BY <1>1, <1>2, <1>5 DEF disk
    <2> QED
        BY <1>1, <1>2, <1>3, <2>1 DEF Traced
<1>6. CASE w \notin behind
    <2>1. Covers(last[w], acked)
        BY <1>1, <1>3, <1>6
    <2> QED
        BY <1>1, <1>2, <1>3, <1>4, <2>1, EndStaysCovered
<1> QED
    BY <1>5, <1>6

(* A writer that restarts reads the last hash of a file that verifies.     *)
LEMMA RestartTraces ==
    ASSUME Types, Types', TornIsNoLine, Traced, damage <= 1, ~overlapped',
           NEW w \in Writers, Restart(w)
    PROVE  /\ \A v \in Writers \ behind' : writer'[v] = "open" => Covers(last'[v], acked')
           /\ (damage' = 0 \/ Verifies(file')) /\ Ends(file') => Covers(LastHash(file'), acked')
<1>1. acked' = acked /\ damage' = damage
    BY DEF Restart
<1>2. /\ ~overlapped
      /\ \/ disk' = disk /\ behind' = behind \ {w}
         \/ w \notin behind /\ behind' = Writers \ {w}
    BY DEF Restart
<1>3. \A v \in Writers \ behind : writer[v] = "open" => Covers(last[v], acked)
    BY <1>2 DEF Traced
<1>4. (damage' = 0 \/ Verifies(file')) /\ Ends(file') => Covers(LastHash(file'), acked')
    <2>1. CASE UNCHANGED file
        BY <1>1, <1>2, <2>1 DEF Traced
    <2>2. ASSUME NEW e, PartlyWritten(w, e), writer[w] = "open", ~UNCHANGED file
          PROVE  (damage' = 0 \/ Verifies(file')) /\ Ends(file') => Covers(LastHash(file'), acked')
        <3>1. w \notin behind
            BY <1>2, <2>2 DEF disk
        <3>2. Covers(last[w], acked)
            BY <1>3, <2>2, <3>1
        <3>3. Grown(w, e) \/ Spoilt
            BY <2>2, PartlyGrowsOrSpoils
        <3> QED
            BY <1>1, <1>2, <3>2, <3>3, EndStaysCovered
    <2> QED
        BY <2>1, <2>2 DEF Restart, CanAppend, disk
<1>5. ASSUME NEW v \in Writers \ behind', writer'[v] = "open"
      PROVE  Covers(last'[v], acked')
    <2>1. CASE v = w
        <3>1. Verifies(file') /\ last'[v] = LastHash(file')
            BY <1>5, <2>1 DEF Restart, Types, LastHash
        <3>2. Ends(file')
            <4>1. IsFile(file')
                BY DEF Types
            <4>2. file' # << >> => Len(file') \in DOMAIN file'
                BY <4>1, EmptySeq DEF IsFile
            <4> QED
                BY <3>1, <4>2 DEF Ends, Verifies, LineVerifies
        <3> QED
            BY <1>4, <3>1, <3>2
    <2>2. CASE v # w
        <3>1. v \notin behind
            BY <1>2, <1>5, <2>2
        <3>2. writer[v] = "open" /\ last'[v] = last[v]
            BY <1>5, <2>2 DEF Restart, Types
        <3> QED
            BY <1>1, <1>3, <3>1, <3>2
    <2> QED
        BY <2>1, <2>2
<1> QED
    BY <1>4, <1>5

LEMMA DamageTraces ==
    ASSUME Types, Types', Ordered, Traced, damage' <= 1, ~overlapped', Damage
    PROVE  /\ \A v \in Writers \ behind' : writer'[v] = "open" => Covers(last'[v], acked')
           /\ (damage' = 0 \/ Verifies(file')) /\ Ends(file') => Covers(LastHash(file'), acked')
<1>1. /\ file' \in Damaged(file) /\ file' # file /\ damage = 0 /\ damage' = 1
      /\ UNCHANGED <<writer, last, acked, behind, overlapped>>
    BY DEF Damage, object, Types
<1>2. IsFile(file) /\ IsFile(file') /\ Signed(file) /\ Numbered(file)
    BY <1>1 DEF Types, Ordered
<1>3. ASSUME Verifies(file') PROVE Covers(LastHash(file'), acked')
    <2>1. file # << >> /\ SameEnd(file, file') /\ file' # << >>
        BY <1>1, <1>2, <1>3, DamageShows, DamageMakes
    <2>2. LastHash(file') = LastHash(file)
        <3>1. ASSUME NEW f, IsFile(f), f # << >>
              PROVE  LastHash(f) = IF f[Len(f)] = Torn THEN Torn ELSE f[Len(f)].event_hash
            <4>1. Len(f) \in Nat \ {0}
                BY <3>1, EmptySeq DEF IsFile
            <4>2. Len(f) + 1 # 1 /\ (Len(f) + 1) - 1 = Len(f)
                BY <4>1
            <4> QED
                BY <4>2 DEF LastHash, PreviousHash
        <3> QED
            BY <1>2, <2>1, <3>1 DEF SameEnd
    <2>3. Ends(file)
        BY <2>1 DEF Ends, SameEnd
    <2> QED
        BY <1>1, <2>2, <2>3 DEF Traced
<1> QED
    BY <1>1, <1>3 DEF Traced

LEMMA TracedStep ==
    ASSUME Types, Types', TornIsNoLine, Ordered, Traced, [Next]_vars
    PROVE  Traced'
<1> SUFFICES ASSUME damage' <= 1, ~overlapped'
             PROVE  /\ \A v \in Writers \ behind' : writer'[v] = "open" => Covers(last'[v], acked')
                    /\ (damage' = 0 \/ Verifies(file')) /\ Ends(file') =>
                          Covers(LastHash(file'), acked')
    BY DEF Traced, Covers, Holds, Ends, LastHash, PreviousHash, Verifies, LineVerifies, HashOf
<1>1. damage \in Nat /\ (damage' = damage \/ Damage)
    BY DEF Next, AppendLine, Writes, AppendFails, Fails, Restart, Finished, meta, vars, Types
<1>2. ASSUME NEW w \in Writers, NEW e, AppendLine(w, e) PROVE damage' = damage
    BY <1>2 DEF AppendLine, Writes, meta
<1>3. ASSUME NEW w \in Writers, NEW e, AppendFails(w, e) PROVE damage' = damage
    BY <1>3 DEF AppendFails, Fails
<1>4. ASSUME NEW w \in Writers, Restart(w) PROVE damage' = damage
    BY <1>4 DEF Restart
<1>5. CASE Damage
    BY <1>5, DamageTraces
<1>6. CASE UNCHANGED vars
    BY <1>6 DEF vars, disk, object, meta, Traced
<1> QED
    BY <1>2, <1>3, <1>4, <1>5, <1>6, AppendTraces, FailureTraces, RestartTraces DEF Next, Finished

(* A file that verifies holds every record whose append returned, and one  *)
(* record for each sequence number, whatever writes failed, however many   *)
(* processes wrote and whichever of them restarted: while nobody damages   *)
(* the file, and after one act of damage too, unless a process had written *)
(* after one it did not know of (AuditLog.append, audit.py:46-75).         *)
THEOREM NothingAcknowledgedIsMissing ==
    TornIsNoLine => (Spec => [](damage <= 1 => VerifiedIsComplete))
<1> SUFFICES ASSUME TornIsNoLine PROVE Spec => [](damage <= 1 => VerifiedIsComplete)
    OBVIOUS
<1>1. Init => Kept /\ Ordered /\ Traced
    <2> SUFFICES ASSUME Init PROVE Kept /\ Ordered /\ Traced
        OBVIOUS
    <2>1. file = << >> /\ acked = {} /\ \A w \in Writers : sequence[w] = 0
        BY DEF Init
    <2>2. Signed(file) /\ Numbered(file) /\ Len(file) = 0
        BY <2>1 DEF Signed, Numbered
    <2>3. \A hash : Covers(hash, acked)
        BY <2>1 DEF Covers, Holds
    <2> QED
        BY <2>1, <2>2, <2>3 DEF Kept, Ordered, Traced
<1>2. Types /\ Kept /\ [Next]_vars => Kept'
    BY KeptStep
<1>3. Types /\ Types' /\ Ordered /\ [Next]_vars => Ordered'
    BY OrderedStep
<1>4. Types /\ Types' /\ Ordered /\ Traced /\ [Next]_vars => Traced'
    BY TracedStep
<1>5. Types /\ Kept /\ Traced => (damage <= 1 => VerifiedIsComplete)
    <2> SUFFICES ASSUME Types, Kept, Traced, damage <= 1, Verifies(file),
                        ~(overlapped /\ damage > 0)
                 PROVE  /\ \A line \in acked : \E i \in DOMAIN file : file[i] = line
                        /\ \A line, other \in acked :
                              line.sequence = other.sequence => line = other
        BY DEF VerifiedIsComplete
    <2>1. \A line \in acked : \E i \in DOMAIN file : file[i] = line
        <3>1. CASE damage = 0
            BY <3>1 DEF Kept
        <3>2. CASE damage # 0
            <4>1. ~overlapped
                BY <3>2 DEF Types
            <4>2. IsFile(file)
                BY DEF Types
            <4>3. file # << >> => Len(file) \in DOMAIN file
                BY <4>2, EmptySeq DEF IsFile
            <4>4. Ends(file)
                BY <4>3 DEF Ends, Verifies, LineVerifies
            <4>5. Covers(LastHash(file), acked)
                BY <4>1, <4>4 DEF Traced
            <4> QED
                BY <4>2, <4>5 DEF Covers, Holds
        <3> QED
            BY <3>1, <3>2
    <2>2. \A i \in DOMAIN file : file[i].sequence = i
        BY DEF Verifies, LineVerifies
    <2> QED
        BY <2>1, <2>2
<1> QED
    BY <1>1, <1>2, <1>3, <1>4, <1>5, TypesHold, PTL DEF Spec

-----------------------------------------------------------------------------
(* A step that neither fails nor damages adds a line or leaves the disk    *)
(* alone.                                                                  *)
LEMMA LandedCounts ==
    ASSUME Types, TornIsNoLine, Counted, failures = 0, damage = 0, ~cut,
           NEW w \in Writers, NEW e, file' = Put(NewLine(w, e)),
           overlapped' = (overlapped \/ w \in behind)
    PROVE  /\ Len(file') = Len(file) + 1 /\ Len(file) \in Nat
           /\ Verifies(file') <=> ~overlapped'
           /\ ~overlapped' => sequence[w] = Len(file)
           /\ PreviousHash(file', Len(file') + 1) = NewLine(w, e).event_hash
<1>1. newline /\ overlapped \in BOOLEAN
    BY DEF Counted, Types
<1>2. /\ Len(file') = Len(file) + 1 /\ Len(file) \in Nat
      /\ Verifies(file') <=> /\ Verifies(file)
                             /\ sequence[w] = Len(file)
                             /\ last[w] = PreviousHash(file, Len(file) + 1)
      /\ PreviousHash(file', Len(file') + 1) = NewLine(w, e).event_hash
    BY <1>1, LineLands
<1>3. /\ Verifies(file) <=> ~overlapped
      /\ w \in behind => sequence[w] < Len(file)
      /\ ~overlapped /\ w \notin behind =>
            sequence[w] = Len(file) /\ last[w] = PreviousHash(file, Len(file) + 1)
    BY DEF Counted
<1>4. sequence[w] \in Nat
    BY DEF Types
<1>5. CASE overlapped
    BY <1>1, <1>2, <1>3, <1>5
<1>6. CASE ~overlapped /\ w \in behind
    <2>1. sequence[w] # Len(file)
        BY <1>2, <1>3, <1>4, <1>6
    <2>2. overlapped' /\ ~Verifies(file')
        BY <1>2, <1>6, <2>1
    <2> QED
        BY <1>2, <2>2
<1>7. CASE ~overlapped /\ w \notin behind
    BY <1>1, <1>2, <1>3, <1>7
<1> QED
    BY <1>5, <1>6, <1>7

LEMMA AppendCounts ==
    ASSUME Types, TornIsNoLine, Counted, NEW w \in Writers, NEW e, AppendLine(w, e)
    PROVE  Counted'
<1> SUFFICES ASSUME failures' = 0, damage' = 0, ~cut'
             PROVE  /\ newline'
                    /\ Verifies(file') <=> ~overlapped'
                    /\ \A v \in Writers :
                          /\ sequence'[v] <= Len(file')
                          /\ v \in behind' => sequence'[v] < Len(file')
                          /\ ~overlapped' /\ v \notin behind' =>
                                /\ sequence'[v] = Len(file')
                                /\ last'[v] = PreviousHash(file', Len(file') + 1)
    BY DEF Counted
<1>1. /\ failures = 0 /\ damage = 0 /\ ~cut
      /\ file' = Put(NewLine(w, e)) /\ newline'
      /\ sequence' = [sequence EXCEPT ![w] = @ + 1]
      /\ last' = [last EXCEPT ![w] = NewLine(w, e).event_hash]
    BY DEF AppendLine, Writes, meta
<1>2. newline
    BY <1>1 DEF Counted
<1>3. Len(file') = Len(file) + 1 /\ Len(file) \in Nat
    BY <1>1, <1>2, LineLands
<1>4. disk' # disk
    BY <1>3 DEF disk
<1>5. /\ behind' = behind \cup (Writers \ {w})
      /\ overlapped' = (overlapped \/ w \in behind)
    BY <1>4 DEF AppendLine, Writes, Overtakes
<1>6. /\ Verifies(file') <=> ~overlapped'
      /\ ~overlapped' => sequence[w] = Len(file)
      /\ PreviousHash(file', Len(file') + 1) = NewLine(w, e).event_hash
    BY <1>1, <1>5, LandedCounts
<1>7. ASSUME NEW v \in Writers
      PROVE  /\ sequence'[v] <= Len(file')
             /\ v \in behind' => sequence'[v] < Len(file')
             /\ ~overlapped' /\ v \notin behind' =>
                   /\ sequence'[v] = Len(file')
                   /\ last'[v] = PreviousHash(file', Len(file') + 1)
    <2>1. /\ sequence[v] \in Nat /\ sequence[v] <= Len(file)
          /\ v \in behind => sequence[v] < Len(file)
        BY <1>1 DEF Types, Counted
    <2>2. CASE v = w
        <3>1. sequence'[v] = sequence[v] + 1 /\ last'[v] = NewLine(w, e).event_hash
            BY <1>1, <2>2 DEF Types
        <3> QED
            BY <1>3, <1>5, <1>6, <2>1, <2>2, <3>1
    <2>3. CASE v # w
        <3>1. sequence'[v] = sequence[v]
            BY <1>1, <2>3 DEF Types
        <3> QED
            BY <1>3, <1>5, <2>1, <2>3, <3>1
    <2> QED
        BY <2>2, <2>3
<1> QED
    BY <1>1, <1>6, <1>7

LEMMA RestartCounts ==
    ASSUME Types, TornIsNoLine, Counted, NEW w \in Writers, Restart(w)
    PROVE  Counted'
<1> SUFFICES ASSUME failures' = 0, damage' = 0, ~cut'
             PROVE  /\ newline'
                    /\ Verifies(file') <=> ~overlapped'
                    /\ \A v \in Writers :
                          /\ sequence'[v] <= Len(file')
                          /\ v \in behind' => sequence'[v] < Len(file')
                          /\ ~overlapped' /\ v \notin behind' =>
                                /\ sequence'[v] = Len(file')
                                /\ last'[v] = PreviousHash(file', Len(file') + 1)
    BY DEF Counted
<1>1. failures = 0 /\ damage = 0
    BY DEF Restart
<1>2. \/ UNCHANGED <<disk, cut>>
      \/ \E e \in Events : /\ file' = Put(NewLine(w, e)) /\ newline' /\ UNCHANGED cut
    BY DEF Restart, PartlyWritten
<1>3. ~cut
    BY <1>2
<1>4. /\ newline /\ overlapped \in BOOLEAN
      /\ Verifies(file) <=> ~overlapped
      /\ \A v \in Writers : sequence[v] <= Len(file) /\ sequence[v] \in Nat
      /\ \A v \in behind : v \in Writers /\ sequence[v] < Len(file)
      /\ ~overlapped => \A v \in Writers \ behind :
            sequence[v] = Len(file) /\ last[v] = PreviousHash(file, Len(file) + 1)
    BY <1>1, <1>3 DEF Counted, Types
<1>5. /\ newline'
      /\ Verifies(file') <=> ~overlapped'
      /\ Len(file') \in Nat /\ Len(file) <= Len(file')
      /\ \/ file' = file /\ behind' = behind \ {w} /\ overlapped' = overlapped
         \/ Len(file') = Len(file) + 1 /\ behind' = Writers \ {w}
    <2>1. CASE UNCHANGED <<disk, cut>>
        <3>1. Len(file) \in Nat
            BY DEF Types, IsFile
        <3>2. file' = file /\ newline' = newline /\ disk' = disk
            BY <2>1 DEF disk
        <3>3. behind' = behind \ {w} /\ overlapped' = overlapped
            BY <1>4, <3>2 DEF Restart
        <3> QED
            BY <1>4, <3>1, <3>2, <3>3
    <2>2. ASSUME NEW e, file' = Put(NewLine(w, e)), newline'
          PROVE  /\ Verifies(file') <=> ~overlapped'
                 /\ Len(file') \in Nat /\ Len(file') = Len(file) + 1 /\ Len(file) \in Nat
                 /\ behind' = Writers \ {w}
        <3>1. Len(file') = Len(file) + 1 /\ Len(file) \in Nat
            BY <1>4, <2>2, LineLands
        <3>2. disk' # disk
            BY <3>1 DEF disk
        <3>3. behind' = Writers \ {w} /\ overlapped' = (overlapped \/ w \in behind)
            BY <3>2 DEF Restart
        <3> QED
            BY <1>1, <1>3, <2>2, <3>1, <3>3, LandedCounts
    <2> QED
        BY <1>2, <2>1, <2>2
<1>6. /\ Verifies(file') => /\ sequence' = [sequence EXCEPT ![w] = Len(file')]
                            /\ last' = [last EXCEPT ![w] = PreviousHash(file', Len(file') + 1)]
      /\ ~Verifies(file') => sequence' = sequence
    BY DEF Restart
<1>7. ASSUME NEW v \in Writers
      PROVE  /\ sequence'[v] <= Len(file')
             /\ v \in behind' => sequence'[v] < Len(file')
             /\ ~overlapped' /\ v \notin behind' =>
                   /\ sequence'[v] = Len(file')
                   /\ last'[v] = PreviousHash(file', Len(file') + 1)
    <2>1. CASE v = w
        <3>1. v \notin behind'
            BY <1>5, <2>1
        <3>2. CASE Verifies(file')
            <4>1. sequence'[v] = Len(file') /\ last'[v] = PreviousHash(file', Len(file') + 1)
                BY <1>6, <2>1, <3>2 DEF Types
            <4> QED
                BY <1>5, <3>1, <4>1
        <3>3. CASE ~Verifies(file')
            BY <1>4, <1>5, <1>6, <3>1, <3>3
        <3> QED
            BY <3>2, <3>3
    <2>2. CASE v # w
        <3>1. sequence'[v] = sequence[v] /\ (Verifies(file') => last'[v] = last[v])
            BY <1>6, <2>2 DEF Types
        <3>2. CASE file' = file /\ behind' = behind \ {w} /\ overlapped' = overlapped
            BY <1>4, <1>5, <2>2, <3>1, <3>2
        <3>3. CASE Len(file') = Len(file) + 1 /\ behind' = Writers \ {w}
            BY <1>4, <1>5, <2>2, <3>1, <3>3
        <3> QED
            BY <1>5, <3>2, <3>3
    <2> QED
        BY <2>1, <2>2
<1> QED
    BY <1>5, <1>7

(* As long as no write fails and nobody damages the file, it verifies      *)
(* exactly when no process has written after one whose records it had not  *)
(* seen; a process that is not behind then has its counters at the end     *)
(* (AuditLog.__init__ and append, audit.py:26-75).                         *)
THEOREM OnlyForksFailVerification ==
    TornIsNoLine => (Spec => []CleanFileVerifies)
<1> SUFFICES ASSUME TornIsNoLine PROVE Spec => []CleanFileVerifies
    OBVIOUS
<1>1. Init => Counted
    <2> SUFFICES ASSUME Init PROVE Counted
        OBVIOUS
    <2>1. file = << >> /\ newline /\ ~overlapped /\ behind = {}
        BY DEF Init
    <2>2. Verifies(file) /\ Len(file) = 0 /\ PreviousHash(file, 1) = Genesis
        BY <2>1 DEF Verifies, PreviousHash
    <2>3. \A w \in Writers : sequence[w] = 0 /\ last[w] = Genesis
        BY DEF Init
    <2> QED
        BY <2>1, <2>2, <2>3 DEF Counted
<1>2. Types /\ Counted /\ [Next]_vars => Counted'
    <2> SUFFICES ASSUME Types, Counted, [Next]_vars PROVE Counted'
        OBVIOUS
    <2>1. ASSUME NEW w \in Writers, NEW e, AppendLine(w, e) PROVE Counted'
        BY <2>1, AppendCounts
    <2>2. ASSUME NEW w \in Writers, NEW e, AppendFails(w, e) PROVE Counted'
        <3>1. failures' # 0
            BY <2>2 DEF AppendFails, Fails, Types
        <3> QED
            BY <3>1 DEF Counted
    <2>3. ASSUME NEW w \in Writers, Restart(w) PROVE Counted'
        BY <2>3, RestartCounts
    <2>4. CASE Damage
        <3>1. damage' # 0
            BY <2>4 DEF Damage, Types
        <3> QED
            BY <3>1 DEF Counted
    <2>5. CASE UNCHANGED vars
        BY <2>5 DEF vars, disk, object, meta, Counted, Verifies, LineVerifies, PreviousHash, HashOf
    <2> QED
        BY <2>1, <2>2, <2>3, <2>4, <2>5 DEF Next, Finished
<1>3. Counted => CleanFileVerifies
    BY DEF Counted, CleanFileVerifies
<1> QED
    BY <1>1, <1>2, <1>3, TypesHold, PTL DEF Spec
=============================================================================
