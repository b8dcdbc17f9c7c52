-------------------------- MODULE SseStreamProofs ---------------------------
(* That the stream's loop feeds its parser exactly the lines of the body,   *)
(* none longer than the limit, and puts into the channel exactly the items *)
(* the parser's events make, for every body and every limit.               *)
EXTENDS SseStream, SseParserProofs, SequenceTheorems, FiniteSetTheorems

Characters == {"D", "E", "S", "x", "i"}
Octets == Characters \cup {"CR", "LF"}

-----------------------------------------------------------------------------
(* The reference splitter, one byte at a time.                             *)

EndsOf(text) == InOrder({k \in DOMAIN text : text[k] \in {"CR", "LF"}}, Len(text))

StartOf(text, j) == IF j = 1 THEN 1 ELSE EndsOf(text)[j - 1] + 1

LinesOf(text) ==
    [j \in DOMAIN EndsOf(text) |-> SubSeq(text, StartOf(text, j), EndsOf(text)[j] - 1)]

RestOf(text) == SubSeq(text, StartOf(text, Len(EndsOf(text)) + 1), Len(text))

LEMMA SplitIs == \A text : Split(text) = [lines |-> LinesOf(text), rest |-> RestOf(text)]
BY DEF Split, LinesOf, RestOf, StartOf, EndsOf

\* A part of a sequence stays when the sequence grows, but for a part that
\* reaches the end, which may grow with it.
LEMMA PartOfLonger ==
    ASSUME NEW V, NEW s \in Seq(V), NEW v \in V,
           NEW m \in Nat, m >= 1, NEW n \in Nat, n <= Len(s)
    PROVE  /\ SubSeq(s, m, n) \in Seq(V)
           /\ SubSeq(Append(s, v), m, n) = SubSeq(s, m, n)
           /\ m <= Len(s) + 1 =>
                SubSeq(Append(s, v), m, Len(s) + 1) = Append(SubSeq(s, m, Len(s)), v)
           /\ m = Len(s) + 1 => SubSeq(s, m, Len(s)) = <<>>
<1> DEFINE longer == Append(s, v)
           l == Len(s)
<1>1. /\ longer \in Seq(V) /\ l \in Nat /\ Len(longer) = l + 1
      /\ DOMAIN longer = 1..(l + 1) /\ longer[l + 1] = v
      /\ \A k \in 1..l : longer[k] = s[k]
  BY AppendFacts
<1>2. \A k \in 1..l : s[k] \in V
  OBVIOUS
<1>3. /\ m \in Int /\ n \in Int /\ l \in Int /\ l + 1 \in Int
      /\ \A k \in m..n : k \in 1..l /\ s[k] \in V /\ longer[k] \in V
      /\ \A k \in m..l : k \in 1..l /\ s[k] \in V
      /\ \A k \in m..(l + 1) : longer[k] \in V
  <2>1. \A k \in 1..(l + 1) : longer[k] \in V
    BY <1>1
  <2> HIDE DEF longer
  <2> QED
    BY <1>1, <1>2, <2>1
<1> HIDE DEF longer, l
<1>4. PICK a : a = SubSeq(s, m, n)
  OBVIOUS
<1>5. /\ a \in Seq(V)
      /\ Len(a) = IF m <= n THEN n - m + 1 ELSE 0
      /\ \A i \in 1..(n - m + 1) : a[i] = s[m + i - 1]
  BY <1>3, <1>4, SubSeqProperties
<1>6. PICK b : b = SubSeq(longer, m, n)
  OBVIOUS
<1>7. /\ b \in Seq(V)
      /\ Len(b) = IF m <= n THEN n - m + 1 ELSE 0
      /\ \A i \in 1..(n - m + 1) : b[i] = longer[m + i - 1]
  BY <1>3, <1>6, SubSeqProperties
<1>8. a = b
  <2>1. Len(a) = Len(b)
    BY <1>5, <1>7
  <2>2. ASSUME NEW i \in 1..Len(a) PROVE a[i] = b[i]
    <3>1. i \in 1..(n - m + 1) /\ m + i - 1 \in m..n
      BY <1>3, <1>5
    <3>2. m + i - 1 \in 1..l
      BY <1>3, <3>1
    <3> QED
      BY <1>1, <1>5, <1>7, <3>1, <3>2
  <2> QED
    BY <1>5, <1>7, <2>1, <2>2, SameSequence
<1>9. ASSUME m <= l + 1
      PROVE  SubSeq(longer, m, l + 1) = Append(SubSeq(s, m, l), v)
  <2>1. PICK c : c = SubSeq(s, m, l)
    OBVIOUS
  <2>2. /\ c \in Seq(V) /\ Len(c) = l - m + 1
        /\ \A i \in 1..(l - m + 1) : c[i] = s[m + i - 1]
    <3>1. /\ c \in Seq(V) /\ Len(c) = IF m <= l THEN l - m + 1 ELSE 0
          /\ \A i \in 1..(l - m + 1) : c[i] = s[m + i - 1]
      BY <1>3, <2>1, SubSeqProperties
    <3> QED
      BY <1>1, <1>9, <3>1
  <2>3. PICK d : d = SubSeq(longer, m, l + 1)
    OBVIOUS
  <2>4. /\ d \in Seq(V) /\ Len(d) = (l + 1) - m + 1
        /\ \A i \in 1..((l + 1) - m + 1) : d[i] = longer[m + i - 1]
    <3>1. /\ d \in Seq(V) /\ Len(d) = IF m <= l + 1 THEN (l + 1) - m + 1 ELSE 0
          /\ \A i \in 1..((l + 1) - m + 1) : d[i] = longer[m + i - 1]
      BY <1>3, <2>3, SubSeqProperties
    <3> QED
      BY <1>9, <3>1
  <2>5. PICK t : t = Append(c, v)
    OBVIOUS
  <2>6. PICK p \in Nat : p = l - m + 1 /\ (l + 1) - m + 1 = p + 1 /\ m + p = l + 1
    BY <1>1, <1>9
  <2>7. /\ t \in Seq(V) /\ Len(t) = p + 1 /\ t[p + 1] = v
        /\ \A i \in 1..p : t[i] = c[i]
    BY <2>2, <2>5, <2>6, AppendFacts
  <2>8. ASSUME NEW i \in 1..(p + 1) PROVE d[i] = t[i]
    <3>1. CASE i \in 1..p
      <4>1. m + i - 1 \in 1..l
        BY <1>1, <2>6, <3>1
      <4> QED
        BY <1>1, <2>2, <2>4, <2>6, <2>7, <3>1, <4>1
    <3>2. CASE i = p + 1
      <4>1. m + i - 1 = l + 1
        BY <2>6, <3>2
      <4> QED
        BY <1>1, <2>4, <2>6, <2>7, <3>2, <4>1
    <3> QED
      BY <2>6, <3>1, <3>2
  <2>9. d = t
    BY <2>4, <2>6, <2>7, <2>8, SameSequence
  <2> QED
    BY <2>1, <2>3, <2>5, <2>9
<1>10. m = l + 1 => SubSeq(s, m, l) = <<>>
  BY <1>1, <1>3, SubSeqEmpty
<1> QED
  BY <1>4, <1>5, <1>6, <1>8, <1>9, <1>10 DEF longer, l

LEMMA PartStays ==
    ASSUME NEW V, NEW s \in Seq(V), NEW v \in V, NEW t, t = Append(s, v),
           NEW m \in Nat, m >= 1, NEW n \in Nat, n <= Len(s)
    PROVE  SubSeq(t, m, n) = SubSeq(s, m, n)
BY PartOfLonger

\* Where the lines start
LEMMA StartsInOrder ==
    ASSUME NEW V, NEW text \in Seq(V)
    PROVE  LET ends == EndsOf(text) IN
           /\ ends \in Seq(Nat) /\ Len(ends) \in Nat /\ DOMAIN ends = 1..Len(ends)
           /\ \A j \in 1..Len(ends) : ends[j] \in 1..Len(text)
           /\ \A j \in 1..(Len(ends) + 1) : StartOf(text, j) \in 1..(Len(text) + 1)
           /\ LinesOf(text) \in Seq(Seq(V)) /\ Len(LinesOf(text)) = Len(ends)
           /\ RestOf(text) \in Seq(V)
<1> DEFINE S == {k \in DOMAIN text : text[k] \in {"CR", "LF"}}
<1>1. PICK ends : ends = EndsOf(text)
  OBVIOUS
<1>2. Len(text) \in Nat /\ \A k \in 1..Len(text) : text[k] \in V
  OBVIOUS
<1>3. ends = InOrder(S, Len(text))
  BY <1>1 DEF EndsOf
<1> HIDE DEF S
<1>4. ends \in Seq(Nat) /\ \A j \in 1..Len(ends) : ends[j] \in 1..Len(text)
  BY <1>2, <1>3, InOrderMembers
<1>5. Len(ends) \in Nat /\ DOMAIN ends = 1..Len(ends)
  BY <1>4
<1>6. ASSUME NEW j \in 1..(Len(ends) + 1)
      PROVE  StartOf(text, j) \in 1..(Len(text) + 1)
  <2>1. CASE j = 1
    BY <1>2, <2>1 DEF StartOf
  <2>2. CASE j # 1
    <3>1. j - 1 \in 1..Len(ends)
      BY <1>5, <2>2
    <3> QED
      BY <1>1, <1>2, <1>4, <2>2, <3>1 DEF StartOf
  <2> QED
    BY <2>1, <2>2
<1>7. ASSUME NEW a \in 1..(Len(text) + 1), NEW b \in Int, b <= Len(text)
      PROVE  SubSeq(text, a, b) \in Seq(V)
  <2>1. a \in Int /\ \A k \in a..b : text[k] \in V
    BY <1>2, <1>7
  <2> QED
    BY <2>1, SubSeqProperties
<1>8. LinesOf(text) \in Seq(Seq(V)) /\ Len(LinesOf(text)) = Len(ends)
  <2>1. LinesOf(text) = [j \in 1..Len(ends) |->
                           SubSeq(text, StartOf(text, j), ends[j] - 1)]
    BY <1>1, <1>5 DEF LinesOf
  <2>2. ASSUME NEW j \in 1..Len(ends)
        PROVE  SubSeq(text, StartOf(text, j), ends[j] - 1) \in Seq(V)
    <3>1. StartOf(text, j) \in 1..(Len(text) + 1) /\ ends[j] - 1 \in Int
          /\ ends[j] - 1 <= Len(text)
      BY <1>2, <1>4, <1>5, <1>6
    <3> QED
      BY <1>7, <3>1
  <2>3. PICK g : g = [j \in 1..Len(ends) |-> SubSeq(text, StartOf(text, j), ends[j] - 1)]
    OBVIOUS
  <2>4. \A j \in 1..Len(ends) : g[j] \in Seq(V)
    BY <2>2, <2>3
  <2>5. g = [j \in 1..Len(ends) |-> g[j]]
    BY <2>3
  <2>6. g \in Seq(Seq(V)) /\ Len(g) = Len(ends)
    BY <1>5, <2>4, <2>5
  <2> QED
    BY <2>1, <2>3, <2>6
<1>9. RestOf(text) \in Seq(V)
  <2>1. StartOf(text, Len(ends) + 1) \in 1..(Len(text) + 1)
    BY <1>5, <1>6
  <2> QED
    BY <1>1, <1>2, <1>7, <2>1 DEF RestOf
<1> QED
  BY <1>1, <1>4, <1>5, <1>6, <1>8, <1>9

\* One more byte of the text ends a line, or makes the rest longer.
LEMMA SplitAppend ==
    ASSUME NEW V, NEW text \in Seq(V), NEW byte \in V
    PROVE  /\ byte \in {"CR", "LF"} =>
                /\ LinesOf(Append(text, byte)) = Append(LinesOf(text), RestOf(text))
                /\ RestOf(Append(text, byte)) = <<>>
           /\ byte \notin {"CR", "LF"} =>
                /\ LinesOf(Append(text, byte)) = LinesOf(text)
                /\ RestOf(Append(text, byte)) = Append(RestOf(text), byte)
<1>1. PICK longer : longer = Append(text, byte)
  OBVIOUS
<1>2. PICK n \in Nat : n = Len(text)
  OBVIOUS
<1>a. ASSUME NEW m \in Nat, m >= 1, NEW b \in Nat, b <= Len(text)
      PROVE  SubSeq(longer, m, b) = SubSeq(text, m, b)
  BY <1>1, <1>a, PartStays
<1>b. ASSUME NEW m \in Nat, m >= 1, m <= n + 1
      PROVE  SubSeq(longer, m, n + 1) = Append(SubSeq(text, m, n), byte)
  <2>1. m <= Len(text) + 1 /\ n <= Len(text)
    BY <1>2, <1>b
  <2>2. SubSeq(Append(text, byte), m, Len(text) + 1) = Append(SubSeq(text, m, Len(text)), byte)
    BY <1>2, <1>b, <2>1, PartOfLonger
  <2> QED
    BY <1>1, <1>2, <2>2
<1>3. /\ longer \in Seq(V) /\ Len(longer) = n + 1 /\ longer[n + 1] = byte
      /\ \A k \in 1..n : longer[k] = text[k]
      /\ DOMAIN text = 1..n /\ DOMAIN longer = 1..(n + 1)
  BY <1>1, <1>2, AppendFacts
<1>4. PICK ends : ends = EndsOf(text)
  OBVIOUS
<1>5. /\ ends \in Seq(Nat) /\ Len(ends) \in Nat /\ DOMAIN ends = 1..Len(ends)
      /\ \A j \in 1..Len(ends) : ends[j] \in 1..n
      /\ \A j \in 1..(Len(ends) + 1) : StartOf(text, j) \in 1..(n + 1)
      /\ LinesOf(text) \in Seq(Seq(V)) /\ Len(LinesOf(text)) = Len(ends)
      /\ RestOf(text) \in Seq(V)
  BY <1>2, <1>4, StartsInOrder
<1>6. PICK l \in Nat : l = Len(ends)
  BY <1>5
<1>7. PICK ends2 : ends2 = EndsOf(longer)
  OBVIOUS
<1>8. ends2 = IF byte \in {"CR", "LF"} THEN Append(ends, n + 1) ELSE ends
  <2>1. PICK S : S = {k \in DOMAIN text : text[k] \in {"CR", "LF"}}
    OBVIOUS
  <2>2. PICK T : T = {k \in DOMAIN longer : longer[k] \in {"CR", "LF"}}
    OBVIOUS
  <2>3. \A k \in 1..n : k \in S <=> k \in T
    <3>1. \A k \in 1..n : k \in 1..(n + 1)
      OBVIOUS
    <3> QED
      BY <1>3, <2>1, <2>2, <3>1
  <2>4. n + 1 \in T <=> byte \in {"CR", "LF"}
    <3>1. n + 1 \in 1..(n + 1)
      OBVIOUS
    <3> QED
      BY <1>3, <2>2, <3>1
  <2>5. ends = InOrder(S, n) /\ ends2 = InOrder(T, n + 1)
    BY <1>2, <1>3, <1>4, <1>7, <2>1, <2>2 DEF EndsOf
  <2>6. InOrder(T, n + 1) = IF n + 1 \in T THEN Append(InOrder(S, n), n + 1)
                            ELSE InOrder(S, n)
    BY <2>3, InOrderGrows
  <2> QED
    BY <2>4, <2>5, <2>6
<1>9. ASSUME NEW j \in 1..(l + 1)
      PROVE  StartOf(longer, j) = StartOf(text, j)
  <2>1. j # 1 => j - 1 \in 1..l
    BY <1>6, <1>9
  <2>2. \A k \in 1..l : ends2[k] = ends[k]
    <3>1. n + 1 \in Nat
      OBVIOUS
    <3>2. \A k \in 1..l : Append(ends, n + 1)[k] = ends[k]
      BY <1>5, <1>6, <3>1, AppendFacts
    <3> QED
      BY <1>8, <3>2
  <2> QED
    BY <1>4, <1>7, <2>1, <2>2 DEF StartOf
<1>10. ASSUME NEW j \in 1..l
       PROVE  SubSeq(longer, StartOf(longer, j), ends[j] - 1)
                = SubSeq(text, StartOf(text, j), ends[j] - 1)
  <2>1. j \in 1..(l + 1)
    BY <1>6, <1>10
  <2>2. PICK m \in Nat : m = StartOf(text, j) /\ m >= 1 /\ m = StartOf(longer, j)
    BY <1>5, <1>6, <1>9, <2>1
  <2>3. PICK b \in Nat : b = ends[j] - 1 /\ b <= Len(text)
    BY <1>2, <1>5, <1>6, <1>10
  <2>4. SubSeq(longer, m, b) = SubSeq(text, m, b)
    BY <1>a, <2>2, <2>3
  <2> QED
    BY <2>2, <2>3, <2>4
<1>11. PICK start \in Nat : /\ start = StartOf(text, l + 1) /\ start >= 1 /\ start <= n + 1
                            /\ start = StartOf(longer, l + 1)
  <2>1. l + 1 \in 1..(l + 1)
    BY <1>6
  <2>2. StartOf(longer, l + 1) = StartOf(text, l + 1)
    BY <1>9, <2>1
  <2>3. StartOf(text, l + 1) \in 1..(n + 1)
    BY <1>5, <1>6, <2>1
  <2> QED
    BY <2>2, <2>3
<1>12. /\ SubSeq(longer, start, n) = SubSeq(text, start, n)
       /\ SubSeq(longer, start, n + 1) = Append(SubSeq(text, start, n), byte)
  <2>1. n <= Len(text)
    BY <1>2
  <2> QED
    BY <1>a, <1>b, <1>11, <2>1
<1>13. RestOf(text) = SubSeq(text, start, n)
  BY <1>2, <1>4, <1>6, <1>11 DEF RestOf
<1>14. CASE byte \notin {"CR", "LF"}
  <2>1. ends2 = ends
    BY <1>8, <1>14
  <2>2. LinesOf(longer) = [j \in 1..l |-> SubSeq(longer, StartOf(longer, j), ends[j] - 1)]
    BY <1>5, <1>6, <1>7, <2>1 DEF LinesOf
  <2>3. LinesOf(text) = [j \in 1..l |-> SubSeq(text, StartOf(text, j), ends[j] - 1)]
    BY <1>4, <1>5, <1>6 DEF LinesOf
  <2>4. LinesOf(longer) = LinesOf(text)
    BY <1>10, <2>2, <2>3
  <2>5. RestOf(longer) = SubSeq(longer, start, n + 1)
    BY <1>3, <1>6, <1>7, <1>11, <2>1 DEF RestOf
  <2> QED
    BY <1>1, <1>12, <1>13, <1>14, <2>4, <2>5
<1>15. CASE byte \in {"CR", "LF"}
  <2>1. /\ Len(ends2) = l + 1 /\ DOMAIN ends2 = 1..(l + 1)
        /\ ends2[l + 1] = n + 1 /\ \A k \in 1..l : ends2[k] = ends[k]
    <3>1. n + 1 \in Nat /\ ends2 = Append(ends, n + 1)
      BY <1>8, <1>15
    <3> QED
      BY <1>5, <1>6, <3>1, AppendFacts
  <2>2. PICK g : g = LinesOf(longer)
    OBVIOUS
  <2>3. g = [j \in 1..(l + 1) |-> SubSeq(longer, StartOf(longer, j), ends2[j] - 1)]
    BY <1>7, <2>1, <2>2 DEF LinesOf
  <2>4. PICK t : t = Append(LinesOf(text), RestOf(text))
    OBVIOUS
  <2>5. /\ t \in Seq(Seq(V)) /\ Len(t) = l + 1 /\ t[l + 1] = RestOf(text)
        /\ \A j \in 1..l : t[j] = LinesOf(text)[j]
    BY <1>5, <1>6, <2>4, AppendFacts
  <2>6. LinesOf(text) = [j \in 1..l |-> SubSeq(text, StartOf(text, j), ends[j] - 1)]
    BY <1>4, <1>5, <1>6 DEF LinesOf
  <2>7. ASSUME NEW j \in 1..(l + 1) PROVE g[j] = t[j]
    <3>1. CASE j \in 1..l
      <4>1. g[j] = SubSeq(longer, StartOf(longer, j), ends[j] - 1)
        BY <2>1, <2>3, <3>1
      <4>2. t[j] = SubSeq(text, StartOf(text, j), ends[j] - 1)
        BY <2>5, <2>6, <3>1
      <4> QED
        BY <1>10, <3>1, <4>1, <4>2
    <3>2. CASE j = l + 1
      <4>1. (n + 1) - 1 = n /\ l + 1 \in 1..(l + 1)
        OBVIOUS
      <4>2. g[l + 1] = SubSeq(longer, start, n)
        BY <1>11, <2>1, <2>3, <4>1
      <4> QED
        BY <1>12, <1>13, <2>5, <3>2, <4>2
    <3> QED
      BY <1>6, <3>1, <3>2
  <2>8. g = t
    <3>1. g = [j \in 1..(l + 1) |-> t[j]]
      BY <2>3, <2>7
    <3>2. t = [j \in 1..(l + 1) |-> t[j]]
      BY <2>5
    <3> QED
      BY <3>1, <3>2
  <2>9. RestOf(longer) = <<>>
    <3>1. StartOf(longer, (l + 1) + 1) = n + 2
      <4>1. (l + 1) + 1 # 1 /\ ((l + 1) + 1) - 1 = l + 1 /\ (n + 1) + 1 = n + 2
        BY <1>6
      <4> QED
        BY <1>7, <2>1, <4>1 DEF StartOf
    <3>2. n + 2 \in Int /\ n + 1 \in Int /\ n + 1 < n + 2
      BY <1>2
    <3>3. SubSeq(longer, n + 2, n + 1) = <<>>
      BY <3>2, SubSeqEmpty
    <3> QED
      BY <1>3, <1>7, <2>1, <3>1, <3>3 DEF RestOf
  <2> QED
    BY <1>1, <1>15, <2>2, <2>4, <2>8, <2>9
<1> QED
  BY <1>14, <1>15

\* The text is the body without the LF of each pair.
LEMMA TextGrows ==
    ASSUME received \in Seq(Octets), NEW byte \in Octets,
           received' = Append(received, byte)
    PROVE  /\ Text \in Seq(Octets)
           /\ Text' = IF /\ byte = "LF" /\ received # <<>>
                         /\ received[Len(received)] = "CR"
                      THEN Text ELSE Append(Text, byte)
<1> DEFINE Kept(r) == {k \in DOMAIN r : ~ /\ k > 1 /\ r[k] = "LF" /\ r[k - 1] = "CR"}
<1>1. PICK n \in Nat : n = Len(received)
  OBVIOUS
<1>2. PICK longer : longer = received' /\ longer = Append(received, byte)
  OBVIOUS
<1>3. /\ longer[n + 1] = byte /\ DOMAIN longer = 1..(n + 1) /\ DOMAIN received = 1..n
      /\ \A k \in 1..n : longer[k] = received[k]
  BY <1>1, <1>2, AppendFacts
<1>4. \A k \in 1..n : k \in Kept(received) <=> k \in Kept(longer)
  <2>1. \A k \in 1..n : k \in 1..(n + 1) /\ (k > 1 => k - 1 \in 1..n)
    OBVIOUS
  <2> QED
    BY <1>3, <2>1
<1>5. n + 1 \in Kept(longer)
        <=> ~(byte = "LF" /\ received # <<>> /\ received[n] = "CR")
  <2>1. n + 1 \in 1..(n + 1) /\ (n + 1) - 1 = n /\ (n + 1 > 1 <=> n # 0)
    OBVIOUS
  <2>2. received # <<>> <=> n # 0
    BY <1>1
  <2>3. n # 0 => n \in 1..n
    OBVIOUS
  <2> QED
    BY <1>3, <2>1, <2>2, <2>3
<1>6. PICK S : S = Kept(received)
  OBVIOUS
<1>7. PICK T : T = Kept(longer)
  OBVIOUS
<1>8. Text = Chosen(received, S) /\ Text' = Chosen(longer, T)
  BY <1>2, <1>6, <1>7 DEF Text, Chosen, InOrder
<1> HIDE DEF Kept
<1>9. /\ Chosen(received, S) \in Seq(Octets)
      /\ Chosen(Append(received, byte), T) =
           IF Len(received) + 1 \in T THEN Append(Chosen(received, S), byte)
           ELSE Chosen(received, S)
  BY <1>1, <1>4, <1>6, <1>7, ChosenGrows
<1> QED
  BY <1>1, <1>2, <1>5, <1>7, <1>8, <1>9

-----------------------------------------------------------------------------
(* What dispatching a line does to the parser.                             *)

\* A log entry is a line's.
Fits(e, line) ==
    IF line = <<>> THEN e.field = "blank"
    ELSE /\ e.field = FieldOf[line[1]]
         /\ e.field # "unknown" => e.value = ValueOf(line)

\* Decoding makes a value at most three times as long.
LEMMA ValueFacts ==
    ASSUME NEW V, NEW line \in Seq(V), line # <<>>
    PROVE  /\ ValueOf(line) \in Nat
           /\ FieldOf[line[1]] # "signature" => ValueOf(line) <= 3 * (Len(line) - 1)
<1>1. PICK n \in Nat : n = Len(line) /\ n >= 1
  OBVIOUS
<1>2. IsFiniteSet(2..n) /\ Cardinality(2..n) = n - 1
  <2>1. 2 \in Int /\ n \in Int
    OBVIOUS
  <2>2. IsFiniteSet(2..n) /\ Cardinality(2..n) = IF 2 > n THEN 0 ELSE n - 2 + 1
    BY <2>1, FS_Interval
  <2> QED
    BY <1>1, <2>2
<1>3. IsFiniteSet(InvalidIn(line)) /\ Cardinality(InvalidIn(line)) <= n - 1
  <2>1. InvalidIn(line) \in SUBSET (2..n)
    BY <1>1 DEF InvalidIn
  <2> QED
    BY <1>2, <2>1, FS_Subset
<1>4. Cardinality(InvalidIn(line)) \in Nat
  BY <1>3, FS_CardinalityType
<1>5. ValueLen(line) \in Nat /\ ValueLen(line) <= 3 * (n - 1)
  BY <1>1, <1>3, <1>4 DEF ValueLen
<1>6. CASE FieldOf[line[1]] # "signature"
  BY <1>1, <1>5, <1>6 DEF ValueOf
<1>7. CASE FieldOf[line[1]] = "signature"
  <2>1. AllDigits(ValueLen(line)) \in Nat /\ SomeWide(ValueLen(line)) \in Nat
    BY <1>5 DEF AllDigits, SomeWide
  <2> QED
    BY <1>7, <2>1 DEF ValueOf
<1> QED
  BY <1>6, <1>7

LEMMA FieldsOfLines ==
    /\ DOMAIN FieldOf = Characters
    /\ FieldOf["D"] = "data" /\ FieldOf["E"] = "event"
    /\ FieldOf["S"] = "signature" /\ FieldOf["x"] = "unknown"
    /\ FieldOf["i"] = "unknown"
BY DEF FieldOf, Characters

\* feed_line does what the line's first byte says.
LEMMA FeedLineIs ==
    ASSUME NEW line \in Seq(Characters), FeedLine(line)
    PROVE  \/ line = <<>> /\ FeedBlank
           \/ /\ line # <<>> /\ ValueOf(line) \in Nat
              /\ \/ FieldOf[line[1]] = "data" /\ line[1] = "D" /\ FeedData(ValueOf(line))
                 \/ FieldOf[line[1]] = "event" /\ FeedEventType(ValueOf(line))
                 \/ FieldOf[line[1]] = "signature" /\ FeedSignature(ValueOf(line))
                 \/ /\ FieldOf[line[1]] = "unknown"
                    /\ FeedIgnored /\ Last(fed').field = "unknown"
<1>1. CASE line = <<>>
  BY <1>1 DEF FeedLine
<1>2. CASE line # <<>>
  <2>1. line[1] \in Characters /\ Len(line) \in Nat /\ Len(line) >= 1
    BY <1>2
  <2>2. ValueOf(line) \in Nat
    BY <1>2, ValueFacts
  <2>3. CASE FieldOf[line[1]] = "data"
    <3>1. FeedData(ValueOf(line))
      BY <1>2, <2>3 DEF FeedLine
    <3>2. line[1] = "D"
      BY <2>1, <2>3, FieldsOfLines DEF Characters
    <3> QED
      BY <1>2, <2>2, <2>3, <3>1, <3>2
  <2>4. CASE FieldOf[line[1]] = "event"
    <3>1. FeedEventType(ValueOf(line))
      BY <1>2, <2>4 DEF FeedLine
    <3> QED
      BY <1>2, <2>2, <2>4, <3>1
  <2>5. CASE FieldOf[line[1]] = "signature"
    <3>1. FeedSignature(ValueOf(line))
      BY <1>2, <2>5 DEF FeedLine
    <3> QED
      BY <1>2, <2>2, <2>5, <3>1
  <2>6. CASE FieldOf[line[1]] = "unknown"
    <3>1. FeedIgnored /\ Last(fed').field = "unknown"
      BY <1>2, <2>6 DEF FeedLine
    <3> QED
      BY <1>2, <2>2, <2>6, <3>1
  <2> QED
    BY <2>1, <2>3, <2>4, <2>5, <2>6, FieldsOfLines DEF Characters
<1> QED
  BY <1>1, <1>2

\* A line that is not too large is one more entry of the log, and the parser
\* stays what the reference says.
LineFed(line, e) ==
    /\ Grows(e) /\ Fits(e, line) /\ e.ok /\ e.field # "reset"
    /\ LogTypeOK'
    /\ LogInv => LogInv'
    /\ max_event_data_bytes' = max_event_data_bytes
    /\ \/ delivered' = delivered
       \/ line = <<>> /\ has_data /\ \E event \in AnyEvent : delivered' = Append(delivered, event)

LEMMA FeedLineGrows ==
    ASSUME LogTypeOK, NEW line \in Seq(Characters), FeedLine(line), ~TooLarge(line)
    PROVE  \E e : LineFed(line, e)
<1>t. /\ fed \in Seq(Entry) /\ delivered \in Seq(AnyEvent)
      /\ data \in Seq(Nat) /\ data_len \in Nat
      /\ event_type \in SUBSET Nat /\ signature \in SUBSET Nat
      /\ max_event_data_bytes \in Nat /\ has_data \in BOOLEAN
  BY DEF LogTypeOK
<1>g. \A e : Grows(e) => fed' \in Seq(Entry)
  BY <1>t, GrowsFacts
<1>1. CASE line = <<>> /\ FeedBlank
  <2> DEFINE e == [field |-> "blank", value |-> 0, ok |-> TRUE]
  <2>1. Grows(e)
    <3>1. "blank" \in Fields /\ Log("blank", 0, TRUE)
      BY <1>1 DEF Fields, FeedBlank
    <3> QED
      BY <3>1, LogGrows
  <2>2. Fits(e, line) /\ e.ok /\ e.field # "reset"
    BY <1>1 DEF Fits
  <2> HIDE DEF e
  <2>3. LogInv => LogInv'
    BY <1>1, BlankKeepsLogInv
  <2>4. max_event_data_bytes' = max_event_data_bytes
    BY <1>1 DEF FeedBlank
  <2>5. CASE has_data
    <3> DEFINE event == [event_type |-> event_type, signature |-> signature,
                         data |-> data, data_len |-> data_len, at |-> Len(fed) + 1]
    <3>1. /\ delivered' = Append(delivered, event) /\ has_data' = FALSE
          /\ event_type' = {} /\ signature' = {} /\ data' = <<>> /\ data_len' = 0
      BY <1>1, <2>5 DEF FeedBlank, ClearCurrent
    <3>2. event \in AnyEvent
      BY <1>t DEF AnyEvent
    <3> HIDE DEF event
    <3>3. delivered' \in Seq(AnyEvent)
      BY <1>t, <3>1, <3>2
    <3>4. data' \in Seq(Nat)
      BY <3>1
    <3>5. LogTypeOK'
      BY <1>g, <1>t, <2>1, <2>4, <3>1, <3>3, <3>4 DEF LogTypeOK
    <3> QED
      BY <1>1, <2>1, <2>2, <2>3, <2>4, <2>5, <3>1, <3>2, <3>5 DEF LineFed
  <2>6. CASE ~has_data
    <3>1. UNCHANGED <<event_type, signature, data, data_len, has_data, delivered>>
      BY <1>1, <2>6 DEF FeedBlank, current
    <3>2. LogTypeOK'
      BY <1>g, <1>t, <2>1, <2>4, <3>1 DEF LogTypeOK
    <3> QED
      BY <2>1, <2>2, <2>3, <2>4, <3>1, <3>2 DEF LineFed
  <2> QED
    BY <2>5, <2>6
<1>2. ASSUME NEW e, Grows(e), Fits(e, line), e.ok, e.field \notin {"blank", "reset", "data"},
             UNCHANGED <<max_event_data_bytes, data, data_len, has_data, delivered>>,
             event_type' = IF e.field = "event" THEN {e.value} ELSE event_type,
             signature' = IF e.field = "signature" THEN {e.value} ELSE signature
      PROVE  LineFed(line, e)
  <2>1. LogInv => LogInv'
    BY <1>2, FieldKeepsLogInv
  <2>2. e.value \in Nat
    BY <1>2 DEF Grows, Entry
  <2>3. LogTypeOK'
    BY <1>g, <1>t, <1>2, <2>2 DEF LogTypeOK
  <2> QED
    BY <1>2, <2>1, <2>3 DEF LineFed
<1>3. CASE line # <<>> /\ ValueOf(line) \in Nat
           /\ FieldOf[line[1]] = "event" /\ FeedEventType(ValueOf(line))
  <2> DEFINE e == [field |-> "event", value |-> ValueOf(line), ok |-> TRUE]
  <2>1. Grows(e)
    <3>1. "event" \in Fields /\ Log("event", ValueOf(line), TRUE)
      BY <1>3 DEF Fields, FeedEventType
    <3> QED
      BY <1>3, <3>1, LogGrows
  <2>2. e.field = "event" /\ e.value = ValueOf(line) /\ e.ok
    OBVIOUS
  <2>3. Fits(e, line)
    BY <1>3 DEF Fits
  <2>4. /\ UNCHANGED <<max_event_data_bytes, data, data_len, has_data, delivered, signature>>
        /\ event_type' = {ValueOf(line)}
    BY <1>3 DEF FeedEventType
  <2> HIDE DEF e
  <2> QED
    BY <1>2, <2>1, <2>2, <2>3, <2>4
<1>4. CASE line # <<>> /\ ValueOf(line) \in Nat
           /\ FieldOf[line[1]] = "signature" /\ FeedSignature(ValueOf(line))
  <2> DEFINE e == [field |-> "signature", value |-> ValueOf(line), ok |-> TRUE]
  <2>1. Grows(e)
    <3>1. "signature" \in Fields /\ Log("signature", ValueOf(line), TRUE)
      BY <1>4 DEF Fields, FeedSignature
    <3> QED
      BY <1>4, <3>1, LogGrows
  <2>2. e.field = "signature" /\ e.value = ValueOf(line) /\ e.ok
    OBVIOUS
  <2>3. Fits(e, line)
    BY <1>4 DEF Fits
  <2>4. /\ UNCHANGED <<max_event_data_bytes, data, data_len, has_data, delivered, event_type>>
        /\ signature' = {ValueOf(line)}
    BY <1>4 DEF FeedSignature
  <2> HIDE DEF e
  <2> QED
    BY <1>2, <2>1, <2>2, <2>3, <2>4
<1>5. CASE line # <<>> /\ FieldOf[line[1]] = "unknown"
           /\ FeedIgnored /\ Last(fed').field = "unknown"
  <2>1. PICK f \in {"comment", "unknown"} : Log(f, 0, TRUE)
    BY <1>5 DEF FeedIgnored
  <2> DEFINE e == [field |-> f, value |-> 0, ok |-> TRUE]
  <2>2. Grows(e)
    <3>1. f \in Fields
      BY DEF Fields
    <3> QED
      BY <2>1, <3>1, LogGrows
  <2>3. e.field = f /\ e.ok
    OBVIOUS
  <2> HIDE DEF e
  <2>4. f = "unknown"
    <3>1. N \in Nat /\ Len(fed') = N /\ fed'[N] = e
      <4>1. fed' = Append(fed, e) /\ e \in Entry
        BY <2>2 DEF Grows
      <4> QED
        BY <1>t, <4>1, AppendFacts DEF N
    <3>2. Last(fed') = e
      BY <3>1 DEF Last
    <3> QED
      BY <1>5, <2>3, <3>2
  <2>5. Fits(e, line)
    BY <1>5, <2>3, <2>4 DEF Fits
  <2>6. UNCHANGED <<max_event_data_bytes, data, data_len, has_data, delivered,
                    event_type, signature>>
    BY <1>5 DEF FeedIgnored, current
  <2> QED
    BY <1>2, <2>2, <2>3, <2>4, <2>5, <2>6
<1>6. CASE line # <<>> /\ ValueOf(line) \in Nat
           /\ FieldOf[line[1]] = "data" /\ line[1] = "D" /\ FeedData(ValueOf(line))
  <2> DEFINE v == ValueOf(line)
             e == [field |-> "data", value |-> v, ok |-> TRUE]
  <2>1. NewLen(v) <= max_event_data_bytes /\ NewLen(v) \in Nat
    BY <1>6, <1>t DEF TooLarge, NewLen
  <2>2. /\ Log("data", v, TRUE)
        /\ data' = Append(data, v) /\ data_len' = NewLen(v) /\ has_data' = TRUE
        /\ UNCHANGED <<max_event_data_bytes, event_type, signature, delivered>>
    <3>1. ~(NewLen(v) > max_event_data_bytes)
      BY <1>t, <2>1
    <3>2. FeedData(v)
      BY <1>6
    <3> HIDE DEF v
    <3> QED
      BY <3>1, <3>2, Zenon DEF FeedData
  <2>3. Grows(e)
    <3>1. "data" \in Fields
      BY DEF Fields
    <3> QED
      BY <1>6, <2>2, <3>1, LogGrows
  <2>4. Fits(e, line) /\ e.ok /\ e.field # "reset"
    BY <1>6 DEF Fits
  <2> HIDE DEF e
  <2>5. v \in Nat
    BY <1>6
  <2> HIDE DEF v
  <2>6. LogInv => LogInv'
    BY <2>1, <2>2, <2>5, AcceptedKeepsLogInv
  <2>7. data' \in Seq(Nat)
    BY <1>t, <2>2, <2>5
  <2>8. LogTypeOK'
    BY <1>g, <1>t, <2>1, <2>2, <2>3, <2>7 DEF LogTypeOK
  <2> QED
    BY <2>2, <2>3, <2>4, <2>6, <2>8 DEF LineFed
<1> QED
  BY <1>1, <1>3, <1>4, <1>5, <1>6, FeedLineIs

\* A line too large is logged as rejected; the parser is as if it was new.
LEMMA RejectGrows ==
    ASSUME LogTypeOK, NEW line \in Seq(Characters), TooLarge(line), NEW next,
           Reject(line, next)
    PROVE  /\ \E e : Grows(e) /\ Fits(e, line) /\ ~e.ok /\ e.field # "reset"
           /\ LogTypeOK' /\ delivered' = delivered /\ has_data' = FALSE
           /\ max_event_data_bytes' = max_event_data_bytes
<1> DEFINE v == ValueOf(line)
           e == [field |-> "data", value |-> v, ok |-> FALSE]
<1>1. line # <<>> /\ line[1] = "D" /\ v \in Nat
  <2>1. line # <<>> /\ line[1] = "D"
    BY DEF TooLarge
  <2> QED
    BY <2>1, ValueFacts
<1>2. Grows(e)
  <2>1. "data" \in Fields /\ Log("data", v, FALSE)
    BY DEF Fields, Reject
  <2> QED
    BY <1>1, <2>1, LogGrows
<1>3. Fits(e, line) /\ ~e.ok /\ e.field # "reset"
  BY <1>1, FieldsOfLines DEF Fits
<1> HIDE DEF e
<1>4. /\ event_type' = {} /\ signature' = {} /\ data' = <<>> /\ data_len' = 0
      /\ has_data' = FALSE /\ delivered' = delivered
      /\ max_event_data_bytes' = max_event_data_bytes
  BY DEF Reject, ClearCurrent
<1>5. fed' \in Seq(Entry)
  BY <1>2, GrowsFacts DEF LogTypeOK
<1>6. data' \in Seq(Nat) /\ 0 \in Nat
  BY <1>4
<1>7. LogTypeOK'
  BY <1>4, <1>5, <1>6 DEF LogTypeOK
<1> QED
  BY <1>2, <1>3, <1>4, <1>7

LineLogged(line) == \E e : Grows(e) /\ Fits(e, line) /\ e.field # "reset"

\* Dispatching a line logs that line, and empties the buffer.
LEMMA DispatchGrows ==
    ASSUME LogTypeOK, NEW line \in Seq(Characters), NEW next, DispatchLine(line, next)
    PROVE  /\ LineLogged(line)
           /\ LogTypeOK' /\ line_buf' = <<>>
           /\ \/ outcome' = next
              \/ next = "running" /\ outcome' \in {"error", "channel_closed", "panicked"}
              \/ line = <<>> /\ next # "running" /\ outcome' = "panicked_at_end"
           /\ max_event_data_bytes' = max_event_data_bytes
<1>1. CASE TooLarge(line)
  <2>1. Reject(line, next) /\ line_buf' = <<>>
    BY <1>1 DEF DispatchLine
  <2>2. outcome' = next \/ (next = "running" /\ outcome' \in {"error", "channel_closed"})
    <3>1. outcome' = IF next = "running" THEN "error" ELSE next
      BY <2>1 DEF Reject
    <3> QED
      BY <3>1
  <2>3. /\ \E e : Grows(e) /\ Fits(e, line) /\ ~e.ok /\ e.field # "reset"
        /\ LogTypeOK' /\ max_event_data_bytes' = max_event_data_bytes
    BY <1>1, <2>1, RejectGrows, Zenon
  <2>4. LineLogged(line)
    BY <2>3, Zenon DEF LineLogged
  <2> QED
    BY <2>1, <2>2, <2>3, <2>4, Zenon
<1>2. CASE ~TooLarge(line)
  <2>1. FeedLine(line) /\ Forward(next) /\ line_buf' = <<>>
    BY <1>2 DEF DispatchLine
  <2>3. PICK e : LineFed(line, e)
    BY <1>2, <2>1, FeedLineGrows
  <2>2. \/ outcome' = next
        \/ next = "running" /\ outcome' \in {"error", "channel_closed", "panicked"}
        \/ line = <<>> /\ next # "running" /\ outcome' = "panicked_at_end"
    <3>1. \/ outcome' = next
          \/ outcome' = IF next = "running" THEN "channel_closed" ELSE next
          \/ /\ delivered' # delivered
             /\ outcome' = IF next = "running" THEN "panicked" ELSE "panicked_at_end"
      BY <2>1 DEF Forward
    <3>2. delivered' = delivered \/ line = <<>>
      BY <2>3, Zenon DEF LineFed
    <3> QED
      BY <3>1, <3>2
  <2>4. Grows(e) /\ Fits(e, line) /\ e.field # "reset"
    BY <2>3, Zenon DEF LineFed
  <2>5. LineLogged(line)
    BY <2>4, Zenon DEF LineLogged
  <2>6. LogTypeOK' /\ max_event_data_bytes' = max_event_data_bytes
    BY <2>3, Zenon DEF LineFed
  <2> QED
    BY <2>1, <2>2, <2>5, <2>6, Zenon
<1> QED
  BY <1>1, <1>2

-----------------------------------------------------------------------------
(* The body's lines and what is left after the last, as they are read.     *)

BodyLines == LinesOf(Text)
BodyRest == RestOf(Text)

LEMMA BodyStays ==
    ASSUME received' = received
    PROVE  Text' = Text /\ BodyLines' = BodyLines /\ BodyRest' = BodyRest
<1>1. Text' = Text
  BY DEF Text, Chosen, InOrder
<1>2. BodyLines' = LinesOf(Text') /\ BodyRest' = RestOf(Text')
  BY DEF BodyLines, BodyRest, LinesOf, RestOf, StartOf, EndsOf, InOrder
<1> QED
  BY <1>1, <1>2 DEF BodyLines, BodyRest

LEMMA BodyTypes ==
    ASSUME received \in Seq(Octets)
    PROVE  Text \in Seq(Octets) /\ BodyLines \in Seq(Seq(Octets)) /\ BodyRest \in Seq(Octets)
<1>1. Text \in Seq(Octets)
  BY ChosenFacts DEF Text
<1> QED
  BY <1>1, StartsInOrder DEF BodyLines, BodyRest

LEMMA BodyGrows ==
    ASSUME received \in Seq(Octets), NEW byte \in Octets,
           received' = Append(received, byte)
    PROVE  /\ /\ byte = "LF" /\ received # <<>> /\ received[Len(received)] = "CR"
              => BodyLines' = BodyLines /\ BodyRest' = BodyRest
           /\ /\ byte \in {"CR", "LF"}
              /\ ~(byte = "LF" /\ received # <<>> /\ received[Len(received)] = "CR")
              => BodyLines' = Append(BodyLines, BodyRest) /\ BodyRest' = <<>>
           /\ byte \notin {"CR", "LF"}
              => BodyLines' = BodyLines /\ BodyRest' = Append(BodyRest, byte)
<1>1. /\ Text \in Seq(Octets)
      /\ Text' = IF byte = "LF" /\ received # <<>> /\ received[Len(received)] = "CR"
                 THEN Text ELSE Append(Text, byte)
  BY TextGrows
<1>2. BodyLines' = LinesOf(Text') /\ BodyRest' = RestOf(Text')
  BY DEF BodyLines, BodyRest, LinesOf, RestOf, StartOf, EndsOf, InOrder
<1>3. /\ byte \in {"CR", "LF"} =>
           /\ LinesOf(Append(Text, byte)) = Append(BodyLines, BodyRest)
           /\ RestOf(Append(Text, byte)) = <<>>
      /\ byte \notin {"CR", "LF"} =>
           /\ LinesOf(Append(Text, byte)) = BodyLines
           /\ RestOf(Append(Text, byte)) = Append(BodyRest, byte)
  BY <1>1, SplitAppend DEF BodyLines, BodyRest
<1> QED
  BY <1>1, <1>2, <1>3 DEF BodyLines, BodyRest

\* The outcomes after the blank line that is added, and after the last line
Ended == {"clean", "panicked_at_end"}
Flushed == Ended \cup {"blank_left"}

\* Dispatched, by what is left to dispatch
DispatchedRight ==
    /\ outcome \notin Flushed /\ BodyLines \in Seq(Seq(Octets))
         => Dispatched = BodyLines
    /\ outcome = "blank_left" /\ BodyLines \in Seq(Seq(Octets)) /\ BodyRest \in Seq(Octets)
         => Dispatched = IF BodyRest = <<>> THEN BodyLines ELSE Append(BodyLines, BodyRest)
    /\ outcome \in Ended /\ BodyLines \in Seq(Seq(Octets)) /\ BodyRest \in Seq(Octets)
         => Dispatched = Append(IF BodyRest = <<>> THEN BodyLines
                                ELSE Append(BodyLines, BodyRest), <<>>)

LEMMA DispatchedIsRight == DispatchedRight
<1> USE DEF DispatchedRight, Ended, Flushed
<1> DEFINE A == IF outcome \in {"blank_left", "clean", "panicked_at_end"} /\ BodyRest # <<>>
                THEN <<BodyRest>> ELSE <<>>
           B == IF outcome \in {"clean", "panicked_at_end"} THEN << <<>> >> ELSE <<>>
<1>1. Dispatched = (BodyLines \o A) \o B
  <2>1. Split(Text) = [lines |-> BodyLines, rest |-> BodyRest]
    BY SplitIs DEF BodyLines, BodyRest
  <2>2. Split(Text).lines = BodyLines /\ Split(Text).rest = BodyRest
    BY <2>1
  <2> QED
    BY <2>2 DEF Dispatched
<1>2. \A s \in Seq(Seq(Octets)) : s \o <<>> = s
  BY ConcatEmptySeq
<1>3. \A s \in Seq(Seq(Octets)) : \A x \in Seq(Octets) :
         s \o <<x>> = Append(s, x) /\ Append(s, x) \in Seq(Seq(Octets))
  OBVIOUS
<1>4. <<>> \in Seq(Octets)
  OBVIOUS
<1>5. CASE outcome \notin Flushed /\ BodyLines \in Seq(Seq(Octets))
  <2>1. A = <<>> /\ B = <<>>
    BY <1>5
  <2> HIDE DEF A, B
  <2> QED
    BY <1>1, <1>2, <1>5, <2>1
<1>6. ASSUME BodyLines \in Seq(Seq(Octets)), BodyRest \in Seq(Octets),
             outcome \in Flushed
      PROVE  LET s == IF BodyRest = <<>> THEN BodyLines ELSE Append(BodyLines, BodyRest) IN
             BodyLines \o A = s /\ s \in Seq(Seq(Octets))
  <2>1. A = IF BodyRest # <<>> THEN <<BodyRest>> ELSE <<>>
    BY <1>6
  <2> HIDE DEF A
  <2> QED
    BY <1>2, <1>3, <1>6, <2>1
<1>7. CASE /\ outcome = "blank_left" /\ BodyLines \in Seq(Seq(Octets))
           /\ BodyRest \in Seq(Octets)
  <2>1. B = <<>>
    BY <1>7
  <2> HIDE DEF A, B
  <2> QED
    BY <1>1, <1>2, <1>6, <1>7, <2>1
<1>8. CASE /\ outcome \in Ended /\ BodyLines \in Seq(Seq(Octets))
           /\ BodyRest \in Seq(Octets)
  <2>1. B = << <<>> >>
    BY <1>8
  <2> HIDE DEF A, B
  <2> QED
    BY <1>1, <1>3, <1>4, <1>6, <1>8, <2>1
<1> QED
  BY <1>5, <1>7, <1>8

\* What was dispatched is a line of the body, what is left of it, or blank.
LEMMA DispatchedBounded ==
    ASSUME BodyLines \in Seq(Seq(Octets)), BodyRest \in Seq(Octets), NEW bound \in Nat,
           \A j \in 1..Len(BodyLines) : Len(BodyLines[j]) <= bound,
           outcome \in Flushed => Len(BodyRest) <= bound
    PROVE  /\ Dispatched \in Seq(Seq(Octets))
           /\ \A j \in 1..Len(Dispatched) : Len(Dispatched[j]) <= bound
<1> DEFINE Short(lines) == /\ lines \in Seq(Seq(Octets))
                           /\ \A j \in 1..Len(lines) : Len(lines[j]) <= bound
<1>1. ASSUME NEW lines, Short(lines), NEW line \in Seq(Octets), Len(line) <= bound
      PROVE  Short(Append(lines, line))
  <2>1. PICK n \in Nat : n = Len(lines)
    BY <1>1
  <2>2. PICK more : more = Append(lines, line)
    OBVIOUS
  <2>3. /\ more \in Seq(Seq(Octets)) /\ Len(more) = n + 1 /\ more[n + 1] = line
        /\ \A j \in 1..n : more[j] = lines[j]
    BY <1>1, <2>1, <2>2, AppendFacts
  <2>4. \A j \in 1..(n + 1) : j \in 1..n \/ j = n + 1
    BY <2>1
  <2>5. \A j \in 1..(n + 1) : Len(more[j]) <= bound
    BY <1>1, <2>1, <2>3, <2>4
  <2> QED
    BY <2>2, <2>3, <2>5
<1>2. Short(BodyLines) /\ <<>> \in Seq(Octets) /\ Len(<<>>) <= bound
  BY EmptyIsASeq
<1> HIDE DEF Short
<1>3. outcome \in Flushed /\ BodyRest # <<>> => Short(Append(BodyLines, BodyRest))
  BY <1>1, <1>2
<1>4. \A lines : Short(lines) => Short(Append(lines, <<>>))
  BY <1>1, <1>2
<1>5. Short(Dispatched)
  <2>1. CASE outcome \notin Flushed
    BY <1>2, <2>1, DispatchedIsRight DEF DispatchedRight
  <2>2. CASE outcome \in Flushed
    <3>1. PICK lines : lines = IF BodyRest = <<>> THEN BodyLines
                               ELSE Append(BodyLines, BodyRest)
      OBVIOUS
    <3>2. Short(lines)
      BY <1>2, <1>3, <2>2, <3>1
    <3>3. Dispatched = lines \/ Dispatched = Append(lines, <<>>)
      BY <2>2, <3>1, DispatchedIsRight DEF DispatchedRight, Ended, Flushed
    <3> QED
      BY <1>4, <3>2, <3>3
  <2> QED
    BY <2>1, <2>2
<1> QED
  BY <1>5 DEF Short

LEMMA DispatchedNextIsRight == DispatchedRight'
BY DispatchedIsRight, PTL

-----------------------------------------------------------------------------
(* Why the lines are split and bounded: the buffer is what is left of the   *)
(* body, and what was fed are its lines.                                   *)

Outcomes == {"running", "flushing", "blank_left", "clean", "error", "channel_closed"}
                \cup Panicked

StreamTypes ==
    /\ received \in Seq(Octets) /\ line_buf \in Seq(Characters)
    /\ prev_cr \in BOOLEAN /\ outcome \in Outcomes
    /\ LogTypeOK

AfterCR == received # <<>> /\ received[Len(received)] = "CR"

BufferIsRest ==
    /\ \A j \in 1..Len(BodyLines) : Len(BodyLines[j]) <= MaxLineBytes
    /\ outcome \in {"running", "flushing"} => line_buf = BodyRest
    /\ outcome = "flushing" => BodyRest # <<>>
    /\ \/ Len(BodyRest) <= MaxLineBytes
       \/ /\ outcome = "error" /\ Len(BodyRest) = MaxLineBytes + 1
          /\ line_buf = SubSeq(BodyRest, 1, MaxLineBytes)

LinesInv == (prev_cr <=> AfterCR) /\ BufferIsRest /\ LinesAreSplit

LEMMA SplitMeans ==
    LinesAreSplit <=> /\ Len(fed) = Len(Dispatched)
                      /\ \A j \in DOMAIN fed : Fits(fed[j], Dispatched[j])
BY Zenon DEF LinesAreSplit, Fits

\* One line more to feed, and it is fed
LEMMA SplitGrows ==
    ASSUME fed \in Seq(Entry), LinesAreSplit, NEW lines \in Seq(Seq(Octets)),
           NEW line \in Seq(Octets), LineLogged(line),
           Dispatched = lines, Dispatched' = Append(lines, line)
    PROVE  LinesAreSplit'
<1>1. PICK e : Grows(e) /\ Fits(e, line)
  BY Zenon DEF LineLogged
<1>2. PICK n \in Nat : n = Len(fed)
  OBVIOUS
<1>3. /\ fed' \in Seq(Entry) /\ Len(fed') = n + 1 /\ DOMAIN fed' = 1..(n + 1)
      /\ DOMAIN fed = 1..n
      /\ fed'[n + 1] = e /\ \A k \in 1..n : fed'[k] = fed[k]
  <2>1. e \in Entry /\ fed' = Append(fed, e)
    BY <1>1 DEF Grows
  <2> QED
    BY <1>2, <2>1, AppendFacts
<1>4. Len(lines) = n /\ \A j \in 1..n : Fits(fed[j], lines[j])
  BY <1>2, <1>3, SplitMeans
<1>5. PICK more : more = Append(lines, line)
  OBVIOUS
<1>6. /\ Len(more) = n + 1 /\ more[n + 1] = line
      /\ \A k \in 1..n : more[k] = lines[k]
  BY <1>4, <1>5, AppendFacts
<1>a. PICK log : log = fed'
  OBVIOUS
<1>7. ASSUME NEW j \in 1..(n + 1) PROVE Fits(log[j], more[j])
  <2>1. CASE j \in 1..n
    <3>1. log[j] = fed[j] /\ more[j] = lines[j] /\ Fits(fed[j], lines[j])
      BY <1>3, <1>4, <1>6, <1>a, <2>1
    <3> QED
      BY <3>1
  <2>2. CASE j = n + 1
    <3>1. log[j] = e /\ more[j] = line
      BY <1>3, <1>6, <1>a, <2>2
    <3>2. Fits(e, line)
      BY <1>1
    <3> QED
      BY <3>1, <3>2, Zenon
  <2>3. j \in 1..n \/ j = n + 1
    BY <1>2
  <2> QED
    BY <2>1, <2>2, <2>3, Zenon
<1>8. Len(log) = Len(more) /\ \A j \in DOMAIN log : Fits(log[j], more[j])
  BY <1>3, <1>6, <1>7, <1>a
<1>9. Dispatched' = more
  BY <1>5
<1> QED
  BY <1>8, <1>9, <1>a DEF LinesAreSplit, Fits, FieldOf

LEMMA SplitStays ==
    ASSUME LinesAreSplit, fed' = fed, Dispatched' = Dispatched
    PROVE  LinesAreSplit'
BY DEF LinesAreSplit, FieldOf

\* The lines fed and the buffer, whatever is read, fails, ends or is dropped
\* (http.rs:449-555).
LEMMA LinesStart == StreamInit => StreamTypes /\ LinesInv
<1> SUFFICES ASSUME StreamInit PROVE StreamTypes /\ LinesInv
    OBVIOUS
<1>1. /\ received = <<>> /\ line_buf = <<>> /\ prev_cr = FALSE /\ outcome = "running"
      /\ fed = <<>> /\ delivered = <<>> /\ data = <<>> /\ data_len = 0
      /\ event_type = {} /\ signature = {} /\ has_data = FALSE
      /\ max_event_data_bytes \in Nat
  BY SseParserAssumption DEF StreamInit, Init
<1>2. StreamTypes
  <2>1. \A S : <<>> \in Seq(S)
    BY EmptyIsASeq
  <2>2. /\ received \in Seq(Octets) /\ line_buf \in Seq(Characters)
        /\ prev_cr \in BOOLEAN /\ outcome \in Outcomes
    BY <1>1, <2>1 DEF Outcomes, Panicked
  <2>3. LogTypeOK
    BY <1>1, <2>1 DEF LogTypeOK
  <2> QED
    BY <2>2, <2>3 DEF StreamTypes
<1>3. Text = <<>>
  <2>1. Len(received) = 0
    BY <1>1
  <2>2. \A S : Chosen(received, S) = <<>>
    <3>1. \A S : InOrder(S, 0) = <<>>
      BY InOrderDef
    <3>2. DOMAIN <<>> = {}
      OBVIOUS
    <3>3. \A S : Chosen(received, S) = [j \in DOMAIN InOrder(S, 0) |-> received[InOrder(S, 0)[j]]]
      BY <2>1 DEF Chosen
    <3> QED
      BY <3>1, <3>2, <3>3
  <2> QED
    BY <2>2 DEF Text
<1>4. BodyLines = <<>> /\ BodyRest = <<>>
  <2>1. EndsOf(<<>>) = <<>>
    <3>1. Len(<<>>) = 0
      OBVIOUS
    <3>2. \A S : InOrder(S, 0) = <<>>
      BY InOrderDef
    <3> QED
      BY <3>1, <3>2 DEF EndsOf
  <2>2. LinesOf(<<>>) = <<>>
    BY <2>1 DEF LinesOf
  <2>3. RestOf(<<>>) = <<>>
    <3>1. RestOf(<<>>) = SubSeq(<<>>, 1, 0)
      BY <2>1 DEF RestOf, StartOf
    <3>2. SubSeq(<<>>, 1, 0) = <<>>
      BY SubSeqEmpty
    <3> QED
      BY <3>1, <3>2
  <2> QED
    BY <1>3, <2>2, <2>3 DEF BodyLines, BodyRest
<1>5. Dispatched = <<>>
  <2>1. BodyLines \in Seq(Seq(Octets))
    BY <1>4
  <2> QED
    BY <1>1, <1>4, <2>1, DispatchedIsRight DEF DispatchedRight, Ended, Flushed
<1>6. LinesAreSplit
  BY <1>1, <1>5, SplitMeans
<1>7. BufferIsRest
  BY <1>1, <1>4, SseStreamAssumption DEF BufferIsRest
<1>8. prev_cr <=> AfterCR
  BY <1>1 DEF AfterCR
<1> QED
  BY <1>2, <1>6, <1>7, <1>8 DEF LinesInv

\* A byte that ends a line: the line in the buffer is the body's next.
LEMMA EndKeepsLines ==
    ASSUME StreamTypes, LinesInv, NEW byte \in {"CR", "LF"}, Read(byte),
           ~(byte = "LF" /\ AfterCR), prev_cr' = (byte = "CR"),
           DispatchLine(line_buf, "running")
    PROVE  StreamTypes' /\ LinesInv'
<1>1. /\ received \in Seq(Octets) /\ line_buf \in Seq(Characters) /\ LogTypeOK
      /\ fed \in Seq(Entry)
      /\ outcome = "running" /\ received' = Append(received, byte) /\ byte \in Octets
  BY DEF StreamTypes, Read, LogTypeOK, Octets
<1>2. /\ LineLogged(line_buf) /\ LogTypeOK' /\ line_buf' = <<>>
      /\ outcome' \in {"running", "error", "channel_closed", "panicked"}
  <2>1. /\ LineLogged(line_buf) /\ LogTypeOK' /\ line_buf' = <<>>
        /\ \/ outcome' = "running"
           \/ /\ "running" = "running"
              /\ outcome' \in {"error", "channel_closed", "panicked"}
           \/ /\ line_buf = <<>> /\ "running" # "running"
              /\ outcome' = "panicked_at_end"
    BY <1>1, DispatchGrows, Zenon
  <2>2. outcome' \in {"running", "error", "channel_closed", "panicked"}
    BY <2>1
  <2> QED
    BY <2>1, <2>2, Zenon
<1>3. /\ BodyLines \in Seq(Seq(Octets)) /\ BodyRest \in Seq(Octets)
  BY <1>1, BodyTypes
<1>4. BodyLines' = Append(BodyLines, BodyRest) /\ BodyRest' = <<>>
  BY <1>1, BodyGrows DEF AfterCR
<1>5. BufferIsRest /\ LinesAreSplit
  BY DEF LinesInv
<1>6. line_buf = BodyRest /\ Len(BodyRest) <= MaxLineBytes
  BY <1>1, <1>5 DEF BufferIsRest
<1>7. received' \in Seq(Octets) /\ received' # <<>> /\ received'[Len(received')] = byte
  <2>1. /\ received' \in Seq(Octets) /\ Len(received) \in Nat
        /\ Len(received') = Len(received) + 1
        /\ received'[Len(received) + 1] = byte
    BY <1>1, AppendFacts
  <2>2. Len(<<>>) = 0
    OBVIOUS
  <2> QED
    BY <2>1, <2>2
<1>8. StreamTypes'
  <2>1. line_buf' \in Seq(Characters)
    BY <1>2, EmptyIsASeq
  <2>2. outcome' \in Outcomes /\ prev_cr' \in BOOLEAN
    BY <1>2 DEF Outcomes, Panicked
  <2> QED
    BY <1>2, <1>7, <2>1, <2>2 DEF StreamTypes
<1>9. prev_cr' <=> AfterCR'
  BY <1>7 DEF AfterCR
<1>10. BufferIsRest'
  <2>1. PICK n \in Nat : n = Len(BodyLines)
    BY <1>3
  <2>2. /\ Len(BodyLines') = n + 1 /\ BodyLines'[n + 1] = BodyRest
        /\ \A j \in 1..n : BodyLines'[j] = BodyLines[j]
    BY <1>3, <1>4, <2>1, AppendFacts
  <2>3. \A j \in 1..n : Len(BodyLines[j]) <= MaxLineBytes
    BY <1>5, <2>1 DEF BufferIsRest
  <2>4. ASSUME NEW j \in 1..(n + 1) PROVE Len(BodyLines'[j]) <= MaxLineBytes
    <3>1. CASE j \in 1..n
      BY <2>2, <2>3, <3>1
    <3>2. CASE j = n + 1
      BY <1>6, <2>2, <3>2
    <3> QED
      BY <2>1, <3>1, <3>2
  <2>5. Len(BodyRest') <= MaxLineBytes
    BY <1>4, SseStreamAssumption
  <2>6. outcome' # "flushing" /\ line_buf' = BodyRest'
    BY <1>2, <1>4
  <2> QED
    BY <2>2, <2>4, <2>5, <2>6 DEF BufferIsRest
<1>11. LinesAreSplit'
  <2>1. Dispatched = BodyLines
    BY <1>1, <1>3, DispatchedIsRight DEF DispatchedRight, Ended, Flushed
  <2>2. Dispatched' = BodyLines'
    <3>1. BodyLines' \in Seq(Seq(Octets))
      BY <1>3, <1>4
    <3>2. outcome' \notin Flushed
      BY <1>2 DEF Flushed, Ended
    <3> QED
      BY <3>1, <3>2, DispatchedNextIsRight DEF DispatchedRight, Ended, Flushed
  <2>3. Dispatched' = Append(BodyLines, BodyRest)
    BY <1>4, <2>2
  <2>4. LineLogged(BodyRest)
    BY <1>2, <1>6
  <2> QED
    BY <1>1, <1>3, <1>5, <2>1, <2>3, <2>4, SplitGrows
<1> QED
  BY <1>8, <1>9, <1>10, <1>11 DEF LinesInv

\* The LF of a pair changes nothing of the lines.
LEMMA PairKeepsLines ==
    ASSUME StreamTypes, LinesInv, ReadLFOfPair
    PROVE  StreamTypes' /\ LinesInv'
<1>1. /\ received \in Seq(Octets) /\ line_buf \in Seq(Characters) /\ LogTypeOK
      /\ received' = Append(received, "LF") /\ "LF" \in Octets
      /\ prev_cr' = FALSE /\ AfterCR
      /\ UNCHANGED <<vars, line_buf, outcome>>
  BY DEF StreamTypes, ReadLFOfPair, Read, Octets, LinesInv
<1>2. BodyLines' = BodyLines /\ BodyRest' = BodyRest
  BY <1>1, BodyGrows DEF AfterCR
<1>3. received' \in Seq(Octets) /\ received' # <<>> /\ received'[Len(received')] = "LF"
  <2>1. /\ received' \in Seq(Octets) /\ Len(received) \in Nat
        /\ Len(received') = Len(received) + 1
        /\ received'[Len(received) + 1] = "LF"
    BY <1>1, AppendFacts
  <2>2. Len(<<>>) = 0
    OBVIOUS
  <2> QED
    BY <2>1, <2>2
<1>4. StreamTypes'
  BY <1>1, <1>3 DEF StreamTypes, LogTypeOK, vars, current
<1>5. ~AfterCR'
  BY <1>3 DEF AfterCR
<1>6. BufferIsRest'
  BY <1>1, <1>2 DEF BufferIsRest, LinesInv
<1>7. LinesAreSplit'
  <2>1. fed' = fed
    BY <1>1 DEF vars
  <2>2. BodyLines \in Seq(Seq(Octets)) /\ outcome = "running"
    BY <1>1, BodyTypes DEF ReadLFOfPair, Read
  <2>3. Dispatched = BodyLines
    BY <2>2, DispatchedIsRight DEF DispatchedRight, Ended, Flushed
  <2>4. BodyLines' \in Seq(Seq(Octets)) /\ outcome' = "running"
    BY <1>1, <1>2, <2>2
  <2>5. Dispatched' = BodyLines'
    BY <2>4, DispatchedNextIsRight DEF DispatchedRight, Ended, Flushed
  <2> QED
    BY <1>2, <2>1, <2>3, <2>5, SplitStays DEF LinesInv
<1> QED
  BY <1>1, <1>4, <1>5, <1>6, <1>7 DEF LinesInv

\* A byte of a line goes to the buffer, or is the first beyond the limit.
LEMMA ByteKeepsLines ==
    ASSUME StreamTypes, LinesInv, NEW byte \in Characters, ReadByte(byte)
    PROVE  StreamTypes' /\ LinesInv'
<1>1. /\ received \in Seq(Octets) /\ line_buf \in Seq(Characters) /\ LogTypeOK
      /\ received' = Append(received, byte) /\ byte \in Octets
      /\ byte \notin {"CR", "LF"}
      /\ prev_cr' = FALSE /\ outcome = "running" /\ UNCHANGED vars
  BY DEF StreamTypes, ReadByte, Read, Octets, Characters
<1>2. BodyLines \in Seq(Seq(Octets)) /\ BodyRest \in Seq(Octets)
  BY <1>1, BodyTypes
<1>3. BodyLines' = BodyLines /\ BodyRest' = Append(BodyRest, byte)
  BY <1>1, BodyGrows
<1>4. /\ line_buf = BodyRest /\ Len(BodyRest) <= MaxLineBytes
      /\ \A j \in 1..Len(BodyLines) : Len(BodyLines[j]) <= MaxLineBytes
  BY <1>1 DEF LinesInv, BufferIsRest
<1>5. received' \in Seq(Octets) /\ received' # <<>> /\ received'[Len(received')] = byte
  <2>1. /\ received' \in Seq(Octets) /\ Len(received) \in Nat
        /\ Len(received') = Len(received) + 1
        /\ received'[Len(received) + 1] = byte
    BY <1>1, AppendFacts
  <2>2. Len(<<>>) = 0
    OBVIOUS
  <2> QED
    BY <2>1, <2>2
<1>6. ~AfterCR'
  BY <1>1, <1>5 DEF AfterCR
<1>7. Len(BodyRest) \in Nat /\ MaxLineBytes \in Nat /\ Len(BodyRest') = Len(BodyRest) + 1
  BY <1>1, <1>2, <1>3, SseStreamAssumption, AppendFacts
<1>8. /\ line_buf' \in Seq(Characters) /\ outcome' \in {"running", "error"}
      /\ BufferIsRest'
  <2>1. CASE Len(line_buf) >= MaxLineBytes
    <3>1. outcome' = "error" /\ line_buf' = line_buf
      BY <2>1 DEF ReadByte
    <3>2. Len(BodyRest) = MaxLineBytes /\ Len(BodyRest') = MaxLineBytes + 1
      BY <1>4, <1>7, <2>1
    <3>3. SubSeq(BodyRest', 1, MaxLineBytes) = BodyRest
      <4>1. SubSeq(BodyRest', 1, MaxLineBytes) = SubSeq(BodyRest, 1, MaxLineBytes)
        <5>1. PICK longer : longer = Append(BodyRest, byte)
          OBVIOUS
        <5>2. MaxLineBytes <= Len(BodyRest) /\ 1 \in Nat /\ 1 >= 1
          BY <1>7, <3>2
        <5>3. SubSeq(longer, 1, MaxLineBytes) = SubSeq(BodyRest, 1, MaxLineBytes)
          BY <1>1, <1>2, <1>7, <5>1, <5>2, PartStays
        <5> QED
          BY <1>3, <5>1, <5>3
      <4>2. SubSeq(BodyRest, 1, MaxLineBytes) = BodyRest
        BY <1>2, <3>2, SubSeqFull
      <4> QED
        BY <4>1, <4>2
    <3>4. BufferIsRest'
      BY <1>3, <1>4, <3>1, <3>2, <3>3 DEF BufferIsRest
    <3> QED
      BY <1>1, <3>1, <3>4
  <2>2. CASE Len(line_buf) < MaxLineBytes
    <3>1. line_buf' = Append(line_buf, byte) /\ outcome' = outcome
      BY <1>4, <1>7, <2>2 DEF ReadByte
    <3>2. Len(BodyRest') <= MaxLineBytes /\ line_buf' = BodyRest'
      BY <1>3, <1>4, <1>7, <2>2, <3>1
    <3>3. BufferIsRest'
      BY <1>1, <1>3, <1>4, <3>1, <3>2 DEF BufferIsRest
    <3> QED
      BY <1>1, <3>1, <3>3
  <2> QED
    BY <1>4, <1>7, <2>1, <2>2
<1>9. StreamTypes'
  BY <1>1, <1>5, <1>8 DEF StreamTypes, LogTypeOK, vars, current, Outcomes, Panicked
<1>10. LinesAreSplit'
  <2>1. fed' = fed
    BY <1>1 DEF vars
  <2>2. Dispatched = BodyLines
    BY <1>1, <1>2, DispatchedIsRight DEF DispatchedRight, Ended, Flushed
  <2>3. BodyLines' \in Seq(Seq(Octets)) /\ outcome' \notin Flushed
    BY <1>2, <1>3, <1>8 DEF Flushed, Ended
  <2>4. Dispatched' = BodyLines'
    BY <2>3, DispatchedNextIsRight DEF DispatchedRight, Ended, Flushed
  <2> QED
    BY <1>3, <2>1, <2>2, <2>4, SplitStays DEF LinesInv
<1> QED
  BY <1>1, <1>6, <1>8, <1>9, <1>10 DEF LinesInv

\* Nothing is read: the stream fails, ends or is left, or nothing happens.
LEMMA QuietKeepsLines ==
    ASSUME StreamTypes, LinesInv, ReadFails \/ StreamEnds \/ ReceiverDrops \/ UNCHANGED allVars
    PROVE  StreamTypes' /\ LinesInv'
<1>1. /\ UNCHANGED <<vars, received, line_buf, prev_cr>>
      /\ \/ outcome' = outcome
         \/ outcome = "running" /\ outcome' = "error"
         \/ outcome = "running" /\ line_buf = <<>> /\ outcome' = "blank_left"
         \/ outcome = "running" /\ line_buf # <<>> /\ outcome' = "flushing"
  BY DEF ReadFails, StreamEnds, ReceiverDrops, allVars, streamVars
<1>2. BodyLines' = BodyLines /\ BodyRest' = BodyRest
  BY <1>1, BodyStays
<1>3. BodyLines \in Seq(Seq(Octets)) /\ BodyRest \in Seq(Octets)
  BY BodyTypes DEF StreamTypes
<1>4. StreamTypes'
  BY <1>1 DEF StreamTypes, LogTypeOK, vars, current, Outcomes, Panicked
<1>5. AfterCR' <=> AfterCR
  BY <1>1 DEF AfterCR
<1>6. outcome = "running" => line_buf = BodyRest /\ Len(BodyRest) <= MaxLineBytes
  BY DEF LinesInv, BufferIsRest
<1>7. BufferIsRest'
  BY <1>1, <1>2, <1>6 DEF LinesInv, BufferIsRest
<1>8. Dispatched' = Dispatched
  <2>1. CASE outcome' = outcome
    BY <1>1, <1>2, <2>1 DEF Dispatched, Split, Text, Chosen, InOrder
  <2>2. CASE /\ outcome = "running" /\ outcome' \in {"error", "flushing"}
    <3>1. Dispatched = BodyLines
      BY <1>3, <2>2, DispatchedIsRight DEF DispatchedRight, Ended, Flushed
    <3>2. BodyLines' \in Seq(Seq(Octets)) /\ outcome' \notin Flushed
      BY <1>2, <1>3, <2>2 DEF Flushed, Ended
    <3>3. Dispatched' = BodyLines'
      BY <3>2, DispatchedNextIsRight DEF DispatchedRight, Ended, Flushed
    <3> QED
      BY <1>2, <3>1, <3>3
  <2>3. CASE outcome = "running" /\ line_buf = <<>> /\ outcome' = "blank_left"
    <3>1. Dispatched = BodyLines
      BY <1>3, <2>3, DispatchedIsRight DEF DispatchedRight, Ended, Flushed
    <3>2. /\ BodyLines' \in Seq(Seq(Octets)) /\ BodyRest' \in Seq(Octets)
          /\ BodyRest' = <<>>
      BY <1>2, <1>3, <1>6, <2>3
    <3>3. Dispatched' = BodyLines'
      BY <2>3, <3>2, DispatchedNextIsRight DEF DispatchedRight, Ended, Flushed
    <3> QED
      BY <1>2, <3>1, <3>3
  <2> QED
    BY <1>1, <2>1, <2>2, <2>3
<1>9. LinesAreSplit'
  <2>1. fed' = fed
    BY <1>1 DEF vars
  <2> QED
    BY <1>8, <2>1, SplitStays DEF LinesInv
<1> QED
  BY <1>1, <1>4, <1>5, <1>7, <1>9 DEF LinesInv

\* The body's last line, if it has no end, is fed when the stream ends.
LEMMA FlushKeepsLines ==
    ASSUME StreamTypes, LinesInv, FlushLine
    PROVE  StreamTypes' /\ LinesInv'
<1>1. /\ line_buf \in Seq(Characters) /\ LogTypeOK /\ fed \in Seq(Entry)
      /\ outcome = "flushing" /\ DispatchLine(line_buf, "blank_left")
      /\ UNCHANGED <<received, prev_cr>>
  BY DEF StreamTypes, FlushLine, LogTypeOK
<1>2. /\ LineLogged(line_buf) /\ LogTypeOK' /\ line_buf' = <<>>
      /\ outcome' = "blank_left"
  <2>1. /\ LineLogged(line_buf) /\ LogTypeOK' /\ line_buf' = <<>>
        /\ \/ outcome' = "blank_left"
           \/ /\ "blank_left" = "running"
              /\ outcome' \in {"error", "channel_closed", "panicked"}
           \/ /\ line_buf = <<>> /\ "blank_left" # "running"
              /\ outcome' = "panicked_at_end"
    BY <1>1, DispatchGrows, Zenon
  <2>2. line_buf # <<>>
    BY <1>1 DEF LinesInv, BufferIsRest
  <2>3. outcome' = "blank_left"
    BY <2>1, <2>2
  <2> QED
    BY <2>1, <2>3, Zenon
<1>3. BodyLines' = BodyLines /\ BodyRest' = BodyRest
  BY <1>1, BodyStays
<1>4. BodyLines \in Seq(Seq(Octets)) /\ BodyRest \in Seq(Octets)
  BY BodyTypes DEF StreamTypes
<1>5. line_buf = BodyRest /\ BodyRest # <<>> /\ Len(BodyRest) <= MaxLineBytes
  BY <1>1 DEF LinesInv, BufferIsRest
<1>6. StreamTypes'
  <2>1. line_buf' \in Seq(Characters)
    BY <1>2, EmptyIsASeq
  <2> QED
    BY <1>1, <1>2, <2>1 DEF StreamTypes, Outcomes, Panicked
<1>7. AfterCR' <=> AfterCR
  BY <1>1 DEF AfterCR
<1>8. BufferIsRest'
  BY <1>2, <1>3, <1>5 DEF LinesInv, BufferIsRest
<1>9. LinesAreSplit'
  <2>1. Dispatched = BodyLines
    BY <1>1, <1>4, DispatchedIsRight DEF DispatchedRight, Ended, Flushed
  <2>2. BodyLines' \in Seq(Seq(Octets)) /\ BodyRest' \in Seq(Octets) /\ BodyRest' # <<>>
    BY <1>3, <1>4, <1>5
  <2>3. Dispatched' = Append(BodyLines', BodyRest')
    BY <1>2, <2>2, DispatchedNextIsRight DEF DispatchedRight, Ended, Flushed
  <2>4. Dispatched' = Append(BodyLines, BodyRest)
    BY <1>3, <2>3
  <2>5. LineLogged(BodyRest) /\ LinesAreSplit
    BY <1>2, <1>5 DEF LinesInv
  <2> QED
    BY <1>1, <1>4, <2>1, <2>4, <2>5, SplitGrows
<1> QED
  BY <1>1, <1>6, <1>7, <1>8, <1>9 DEF LinesInv

\* And after it a blank line.
LEMMA BlankKeepsLines ==
    ASSUME StreamTypes, LinesInv, FlushBlank
    PROVE  StreamTypes' /\ LinesInv'
<1>1. /\ LogTypeOK /\ fed \in Seq(Entry)
      /\ outcome = "blank_left" /\ DispatchLine(<<>>, "clean")
      /\ UNCHANGED <<received, prev_cr>>
  BY DEF StreamTypes, FlushBlank, LogTypeOK
<1>a. \A S : <<>> \in Seq(S)
  BY EmptyIsASeq
<1>2. /\ LineLogged(<<>>) /\ LogTypeOK' /\ line_buf' = <<>>
      /\ outcome' \in Ended
  <2>1. PICK line \in Seq(Characters) : line = <<>>
    BY <1>a
  <2>2. /\ LineLogged(line) /\ LogTypeOK' /\ line_buf' = <<>>
        /\ \/ outcome' = "clean"
           \/ /\ "clean" = "running"
              /\ outcome' \in {"error", "channel_closed", "panicked"}
           \/ /\ line = <<>> /\ "clean" # "running"
              /\ outcome' = "panicked_at_end"
    BY <1>1, <2>1, DispatchGrows, Zenon
  <2>3. outcome' \in Ended
    BY <2>2 DEF Ended
  <2> QED
    BY <2>1, <2>2, <2>3, Zenon
<1>3. BodyLines' = BodyLines /\ BodyRest' = BodyRest
  BY <1>1, BodyStays
<1>4. BodyLines \in Seq(Seq(Octets)) /\ BodyRest \in Seq(Octets)
  BY BodyTypes DEF StreamTypes
<1>5. Len(BodyRest) <= MaxLineBytes
  BY <1>1 DEF LinesInv, BufferIsRest
<1>6. StreamTypes'
  <2>1. line_buf' \in Seq(Characters)
    BY <1>2, <1>a
  <2> QED
    BY <1>1, <1>2, <2>1 DEF StreamTypes, Outcomes, Panicked, Ended
<1>7. AfterCR' <=> AfterCR
  BY <1>1 DEF AfterCR
<1>8. BufferIsRest'
  BY <1>2, <1>3, <1>5 DEF LinesInv, BufferIsRest, Ended
<1>9. LinesAreSplit'
  <2>1. PICK lines : lines = IF BodyRest = <<>> THEN BodyLines ELSE Append(BodyLines, BodyRest)
    OBVIOUS
  <2>2. lines \in Seq(Seq(Octets)) /\ <<>> \in Seq(Octets)
    BY <1>4, <1>a, <2>1
  <2>3. Dispatched = lines
    BY <1>1, <1>4, <2>1, DispatchedIsRight DEF DispatchedRight, Ended, Flushed
  <2>4. BodyLines' \in Seq(Seq(Octets)) /\ BodyRest' \in Seq(Octets)
    BY <1>3, <1>4
  <2>5. Dispatched' = Append(IF BodyRest' = <<>> THEN BodyLines'
                             ELSE Append(BodyLines', BodyRest'), <<>>)
    BY <1>2, <2>4, DispatchedNextIsRight DEF DispatchedRight, Ended, Flushed
  <2>6. Dispatched' = Append(lines, <<>>)
    BY <1>3, <2>1, <2>5
  <2>7. LineLogged(<<>>) /\ LinesAreSplit
    BY <1>2 DEF LinesInv
  <2> QED
    BY <1>1, <2>2, <2>3, <2>6, <2>7, SplitGrows
<1> QED
  BY <1>1, <1>6, <1>7, <1>8, <1>9 DEF LinesInv

LEMMA LinesNext == StreamTypes /\ LinesInv /\ [StreamNext]_allVars => StreamTypes' /\ LinesInv'
<1> SUFFICES ASSUME StreamTypes, LinesInv, [StreamNext]_allVars
             PROVE  StreamTypes' /\ LinesInv'
    OBVIOUS
<1>1. CASE ReadLFOfPair
  BY <1>1, PairKeepsLines
<1>2. CASE ReadLF
  <2>1. /\ "LF" \in {"CR", "LF"} /\ Read("LF") /\ DispatchLine(line_buf, "running")
        /\ ~prev_cr /\ prev_cr' = prev_cr
    BY <1>2 DEF ReadLF
  <2>2. ~AfterCR
    BY <2>1 DEF LinesInv
  <2>3. prev_cr' = ("LF" = "CR")
    BY <2>1 DEF StreamTypes
  <2>4. PICK byte \in {"CR", "LF"} : byte = "LF"
    OBVIOUS
  <2> QED
    BY <2>1, <2>2, <2>3, <2>4, EndKeepsLines, Zenon
<1>3. CASE ReadCR
  <2>1. /\ "CR" \in {"CR", "LF"} /\ Read("CR") /\ DispatchLine(line_buf, "running")
        /\ prev_cr' = ("CR" = "CR") /\ "CR" # "LF"
    BY <1>3 DEF ReadCR
  <2>2. PICK byte \in {"CR", "LF"} : byte = "CR"
    OBVIOUS
  <2> QED
    BY <2>1, <2>2, EndKeepsLines, Zenon
<1>4. CASE \E byte \in DOMAIN FieldOf :
             /\ IF line_buf = <<>> THEN byte # "i" ELSE byte \in {"x", "i"}
             /\ ReadByte(byte)
  BY <1>4, ByteKeepsLines, FieldsOfLines
<1>5. CASE ReadFails \/ StreamEnds \/ ReceiverDrops \/ UNCHANGED allVars
  BY <1>5, QuietKeepsLines
<1>6. CASE FlushLine
  BY <1>6, FlushKeepsLines
<1>7. CASE FlushBlank
  BY <1>7, BlankKeepsLines
<1> QED
  BY <1>1, <1>2, <1>3, <1>4, <1>5, <1>6, <1>7 DEF StreamNext

LEMMA LinesHold == StreamSpec => [](StreamTypes /\ LinesInv)
BY LinesStart, LinesNext, PTL DEF StreamSpec

\* For every body, however its lines end, and wherever it fails or ends, the
\* parser is fed each line once, in order, and no other (http.rs:449-452,
\* 464-512).
THEOREM LinesAreAlwaysSplit == StreamSpec => []LinesAreSplit
<1>1. LinesInv => LinesAreSplit
  BY DEF LinesInv
<1> QED
  BY LinesHold, <1>1, PTL

\* For every limit, no line and no buffer has more bytes, the byte that would
\* make one longer is the last one read, and the data value fed for a line is
\* at most three times as long as its bytes (http.rs:419, 491-499).
THEOREM LinesAreAlwaysBounded == StreamSpec => []LinesAreBounded
<1>1. StreamTypes /\ LinesInv => LinesAreBounded
  <2> SUFFICES ASSUME StreamTypes, LinesInv PROVE LinesAreBounded
      OBVIOUS
  <2>1. Split(Text).lines = BodyLines /\ Split(Text).rest = BodyRest
    BY SplitIs DEF BodyLines, BodyRest
  <2>2. BodyLines \in Seq(Seq(Octets)) /\ BodyRest \in Seq(Octets)
    BY BodyTypes DEF StreamTypes
  <2>3. DOMAIN BodyLines = 1..Len(BodyLines) /\ Len(BodyRest) \in Nat /\ MaxLineBytes \in Nat
    BY <2>2, SseStreamAssumption
  <2>4. BufferIsRest /\ LinesAreSplit /\ fed \in Seq(Entry)
    BY DEF LinesInv, StreamTypes, LogTypeOK
  <2>5. /\ Dispatched \in Seq(Seq(Octets))
        /\ \A j \in 1..Len(Dispatched) : Len(Dispatched[j]) <= MaxLineBytes
    <3>1. \A j \in 1..Len(BodyLines) : Len(BodyLines[j]) <= MaxLineBytes
      BY <2>4 DEF BufferIsRest
    <3>2. outcome \in Flushed => Len(BodyRest) <= MaxLineBytes
      BY <2>4 DEF BufferIsRest, Flushed, Ended
    <3> QED
      BY <2>2, <2>3, <3>1, <3>2, DispatchedBounded
  <2>6. ASSUME NEW j \in DOMAIN fed, fed[j].field = "data"
        PROVE  fed[j].value <= 3 * (MaxLineBytes - 1)
    <3>1. PICK line \in Seq(Octets) : line = Dispatched[j] /\ Len(line) <= MaxLineBytes
      BY <2>4, <2>5, <2>6, SplitMeans
    <3>2. Fits(fed[j], line)
      BY <2>4, <3>1, SplitMeans
    <3>3. /\ line # <<>> /\ fed[j].value = ValueOf(line)
          /\ FieldOf[line[1]] # "signature"
      BY <2>6, <3>2 DEF Fits
    <3>4. /\ ValueOf(line) <= 3 * (Len(line) - 1) /\ ValueOf(line) \in Nat
          /\ Len(line) \in Nat
      BY <3>3, ValueFacts
    <3> QED
      BY <2>3, <3>1, <3>3, <3>4
  <2> QED
    BY <2>1, <2>3, <2>4, <2>6 DEF BufferIsRest, LinesAreBounded
<1> QED
  BY LinesHold, <1>1, PTL
-----------------------------------------------------------------------------
(* What is put into the channel: an item for each message, and the report   *)
(* of an event too large after them.                                       *)

Results == {"envelope", "invalid_json", "invalid_base64", "bad_signature", "too_large"}

Reports == {k \in DOMAIN fed : ~fed[k].ok}

ItemTypes == out \in Seq(Results) /\ open \in BOOLEAN /\ signer \in BOOLEAN /\ had_data \in BOOLEAN

\* What an event must be to make an envelope
Envelops(event, signed) == event.data_len = 1 /\ (signed => VerifyHex(event))

\* What makes the task panic: Panics, with the key as a parameter
Unreadable(event, signed) == signed /\ HexDecodePanics(event)

\* Items and messages correspond, from the first, until the receiver drops or
\* the task panics.
ItemsMatch ==
    /\ \A k \in 1..Len(Items) : (Items[k] = "envelope") <=> Envelops(Messages[k], signer)
    /\ Len(Items) <= Len(Messages)
    /\ open => Len(Items) = Len(Messages) - (IF outcome \in Panicked THEN 1 ELSE 0)
    /\ had_data <=> \E k \in 1..Len(Items) : Items[k] = "envelope"

\* The task has panicked exactly if the last message makes it.
PanicsAreLast ==
    /\ \A k \in 1..Len(Messages) :
         Unreadable(Messages[k], signer) <=> outcome \in Panicked /\ k = Len(Messages)
    /\ outcome \in Panicked => Len(Messages) >= 1

\* A rejection is the last entry, but for the blank line that is always added.
ReportsAreLast ==
    /\ outcome \in {"running", "flushing", "channel_closed"} \cup Panicked => Reports = {}
    /\ outcome \in {"blank_left", "error"} => Reports = {} \/ Reports = {Len(fed)}
    /\ outcome = "clean" => Reports = {} \/ Reports = {Len(fed) - 1}
    /\ outcome = "blank_left" /\ Reports # {} => ~has_data
    /\ open => Len(out) = Len(Items) + (IF Reports = {} THEN 0 ELSE 1)

NoResets == \A k \in DOMAIN fed : fed[k].field # "reset"

ClosedEarly == outcome = "channel_closed" => ~open /\ Len(Items) < Len(Messages)

\* The parser is the reference's until a line is rejected; the events it has
\* delivered always are.
ItemsInv ==
    /\ ItemTypes /\ ItemsMatch /\ PanicsAreLast /\ ReportsAreLast /\ NoResets
    /\ ClosedEarly /\ EventsAre /\ (Reports = {} => LogInv)

LEMMA MessagesGrow ==
    ASSUME LogTypeOK
    PROVE  /\ Messages \in Seq(AnyEvent)
           /\ delivered' = delivered => Messages' = Messages
           /\ \A event \in AnyEvent : delivered' = Append(delivered, event) =>
                Messages' = IF IsMessage(event) THEN Append(Messages, event) ELSE Messages
<1>1. delivered \in Seq(AnyEvent)
  BY DEF LogTypeOK
<1>2. Messages \in Seq(AnyEvent)
  BY <1>1, ChosenFacts DEF Messages
<1>3. delivered' = delivered => Messages' = Messages
  BY DEF Messages, Chosen, InOrder
<1>4. ASSUME NEW event \in AnyEvent, delivered' = Append(delivered, event)
      PROVE  Messages' = IF IsMessage(event) THEN Append(Messages, event) ELSE Messages
  <2> DEFINE S == {k \in DOMAIN delivered : IsMessage(delivered[k])}
  <2>1. PICK longer : longer = Append(delivered, event)
    OBVIOUS
  <2>2. PICK n \in Nat : n = Len(delivered)
    BY <1>1
  <2>3. /\ DOMAIN delivered = 1..n /\ DOMAIN longer = 1..(n + 1) /\ longer[n + 1] = event
        /\ \A k \in 1..n : longer[k] = delivered[k]
    BY <1>1, <1>4, <2>1, <2>2, AppendFacts
  <2> DEFINE T == {k \in DOMAIN longer : IsMessage(longer[k])}
  <2>4. \A k \in 1..n : k \in S <=> k \in T
    BY <2>3
  <2>5. n + 1 \in T <=> IsMessage(event)
    BY <2>3
  <2>6. Messages = Chosen(delivered, S)
    BY DEF Messages
  <2>7. Messages' = Chosen(longer, T)
    BY <1>4, <2>1 DEF Messages, Chosen, InOrder
  <2> HIDE DEF S, T
  <2>8. Chosen(longer, T) = IF n + 1 \in T THEN Append(Chosen(delivered, S), event)
                            ELSE Chosen(delivered, S)
    BY <1>1, <1>4, <2>1, <2>2, <2>4, ChosenGrows
  <2> QED
    BY <2>5, <2>6, <2>7, <2>8
<1> QED
  BY <1>2, <1>3, <1>4

LEMMA ItemsGrow ==
    ASSUME ItemTypes
    PROVE  /\ Items \in Seq(Results) /\ Len(out) \in Nat
           /\ out' = out => Items' = Items
           /\ \A item \in Results : out' = Append(out, item) =>
                /\ out' \in Seq(Results) /\ Len(out') = Len(out) + 1
                /\ Items' = IF item = "too_large" THEN Items ELSE Append(Items, item)
<1>1. out \in Seq(Results)
  BY DEF ItemTypes
<1>2. Items \in Seq(Results) /\ Len(out) \in Nat
  BY <1>1, ChosenFacts DEF Items
<1>3. out' = out => Items' = Items
  BY DEF Items, Chosen, InOrder
<1>4. ASSUME NEW item \in Results, out' = Append(out, item)
      PROVE  /\ out' \in Seq(Results) /\ Len(out') = Len(out) + 1
             /\ Items' = IF item = "too_large" THEN Items ELSE Append(Items, item)
  <2> DEFINE S == {k \in DOMAIN out : out[k] # "too_large"}
  <2>1. PICK longer : longer = Append(out, item)
    OBVIOUS
  <2>2. PICK n \in Nat : n = Len(out)
    BY <1>1
  <2>3. /\ DOMAIN out = 1..n /\ DOMAIN longer = 1..(n + 1) /\ longer[n + 1] = item
        /\ Len(longer) = n + 1 /\ longer \in Seq(Results)
        /\ \A k \in 1..n : longer[k] = out[k]
    BY <1>1, <1>4, <2>1, <2>2, AppendFacts
  <2> DEFINE T == {k \in DOMAIN longer : longer[k] # "too_large"}
  <2>4. \A k \in 1..n : k \in S <=> k \in T
    BY <2>3
  <2>5. n + 1 \in T <=> item # "too_large"
    BY <2>3
  <2>6. Items = Chosen(out, S)
    BY DEF Items
  <2>7. Items' = Chosen(longer, T)
    BY <1>4, <2>1 DEF Items, Chosen, InOrder
  <2> HIDE DEF S, T
  <2>8. Chosen(longer, T) = IF n + 1 \in T THEN Append(Chosen(out, S), item)
                            ELSE Chosen(out, S)
    BY <1>1, <1>4, <2>1, <2>2, <2>4, ChosenGrows
  <2> QED
    BY <1>4, <2>1, <2>2, <2>3, <2>5, <2>6, <2>7, <2>8
<1> QED
  BY <1>2, <1>3, <1>4

LEMMA ReportsGrow ==
    ASSUME LogTypeOK, NoResets, NEW e, Grows(e), e.field # "reset"
    PROVE  /\ Reports' = IF e.ok THEN Reports ELSE Reports \cup {N}
           /\ NoResets' /\ Len(fed') = N /\ N = Len(fed) + 1 /\ N \in Nat
<1>1. fed \in Seq(Entry)
  BY DEF LogTypeOK
<1>2. PICK n \in Nat : n = N
  BY <1>1, GrowsFacts
<1>3. /\ n >= 1 /\ DOMAIN fed = 1..(n - 1) /\ DOMAIN fed' = 1..n /\ Len(fed) = n - 1
      /\ fed'[n] = e /\ \A k \in 1..(n - 1) : fed'[k] = fed[k]
      /\ fed' \in Seq(Entry)
  BY <1>1, <1>2, GrowsFacts
<1>4. \A k : k \in 1..n <=> k \in 1..(n - 1) \/ k = n
  BY <1>3
<1>5. Reports' = IF e.ok THEN Reports ELSE Reports \cup {n}
  BY <1>3, <1>4 DEF Reports
<1>6. NoResets'
  BY <1>3, <1>4 DEF NoResets
<1>7. Len(fed') = n
  BY <1>3
<1> QED
  BY <1>2, <1>3, <1>5, <1>6, <1>7

\* The signature is looked at before the data (http.rs:518-555).
LEMMA ProcessedFacts ==
    ASSUME NEW event \in AnyEvent
    PROVE  /\ ProcessMessageEvent(event) \in Results
           /\ ProcessMessageEvent(event) # "too_large"
           /\ (ProcessMessageEvent(event) = "envelope") <=> Envelops(event, signer)
<1>1. event.data_len \in Nat
  BY DEF AnyEvent
<1>2. /\ IntoEnvelope(event) \in {"envelope", "invalid_json", "invalid_base64"}
      /\ (IntoEnvelope(event) = "envelope") <=> event.data_len = 1
  BY <1>1 DEF IntoEnvelope
<1>3. CASE signer /\ ~VerifyHex(event)
  <2>1. ProcessMessageEvent(event) = "bad_signature"
    BY <1>3 DEF ProcessMessageEvent
  <2>2. ~Envelops(event, signer)
    BY <1>3 DEF Envelops
  <2> QED
    BY <2>1, <2>2 DEF Results
<1>4. CASE ~(signer /\ ~VerifyHex(event))
  <2>1. ProcessMessageEvent(event) = IntoEnvelope(event)
    BY <1>4 DEF ProcessMessageEvent
  <2>2. Envelops(event, signer) <=> event.data_len = 1
    BY <1>4, Zenon DEF Envelops
  <2>3. IntoEnvelope(event) \in Results /\ IntoEnvelope(event) # "too_large"
    BY <1>2 DEF Results
  <2>4. (IntoEnvelope(event) = "envelope") <=> Envelops(event, signer)
    BY <1>2, <2>2, Zenon
  <2> QED
    BY <2>1, <2>3, <2>4, Zenon
<1> QED
  BY <1>3, <1>4

\* Neither items nor messages change.
LEMMA MatchStays ==
    ASSUME ItemsMatch, PanicsAreLast, Items' = Items, Messages' = Messages,
           UNCHANGED <<signer, had_data>>, open' = open \/ ~open',
           outcome' \in Panicked <=> outcome \in Panicked
    PROVE  ItemsMatch' /\ PanicsAreLast'
<1>1. ItemsMatch'
  BY DEF ItemsMatch
<1>2. PanicsAreLast'
  BY DEF PanicsAreLast
<1> QED
  BY <1>1, <1>2

\* A message comes and makes an item, or nobody is there to receive it, or
\* the task panics.
LEMMA MatchGrows ==
    ASSUME LogTypeOK, ItemTypes, ItemsMatch, PanicsAreLast, outcome \notin Panicked,
           NEW event \in AnyEvent,
           Messages' = Append(Messages, event), UNCHANGED <<signer, open>>,
           outcome' \in Panicked <=> Panics(event),
           \/ /\ ~Panics(event) /\ open
              /\ out' = Append(out, ProcessMessageEvent(event))
              /\ had_data' = (had_data \/ ProcessMessageEvent(event) = "envelope")
           \/ (Panics(event) \/ ~open) /\ UNCHANGED <<had_data, out>>
    PROVE  /\ ItemTypes' /\ ItemsMatch' /\ PanicsAreLast'
           /\ open => Len(out') - Len(Items') = Len(out) - Len(Items)
           /\ ~open => Len(Items') < Len(Messages')
<1>1. /\ Messages \in Seq(AnyEvent) /\ Items \in Seq(Results) /\ Len(out) \in Nat
  BY MessagesGrow, ItemsGrow
<1>2. PICK m \in Nat, n \in Nat : m = Len(Messages) /\ n = Len(Items)
  BY <1>1
<1>3. /\ Len(Messages') = m + 1 /\ Messages'[m + 1] = event
      /\ \A k \in 1..m : Messages'[k] = Messages[k]
  BY <1>1, <1>2, AppendFacts
<1>4. /\ \A k \in 1..n : (Items[k] = "envelope") <=> Envelops(Messages[k], signer)
      /\ n <= m /\ (open => n = m)
      /\ had_data <=> \E k \in 1..n : Items[k] = "envelope"
  BY <1>2 DEF ItemsMatch
<1>5. PanicsAreLast'
  <2>1. \A k \in 1..m : ~Unreadable(Messages[k], signer)
    BY <1>2 DEF PanicsAreLast
  <2>2. ASSUME NEW k \in 1..(m + 1)
        PROVE  Unreadable(Messages'[k], signer') <=> outcome' \in Panicked /\ k = m + 1
    <3>1. PICK message : message = Messages'[k]
      OBVIOUS
    <3>2. CASE k \in 1..m
      <4>1. message = Messages[k] /\ k # m + 1
        BY <1>3, <3>1, <3>2
      <4>2. ~Unreadable(message, signer)
        BY <2>1, <3>2, <4>1
      <4> QED
        BY <3>1, <4>1, <4>2
    <3>3. CASE k = m + 1
      <4>1. message = event
        BY <1>3, <3>1, <3>3
      <4>2. Unreadable(message, signer) <=> Panics(event)
        BY <4>1 DEF Unreadable, Panics
      <4> QED
        BY <3>1, <3>3, <4>2
    <3>4. k \in 1..m \/ k = m + 1
      OBVIOUS
    <3> QED
      BY <3>2, <3>3, <3>4, Zenon
  <2> QED
    BY <1>3, <2>2 DEF PanicsAreLast
<1>6. CASE open /\ ~Panics(event)
  <2>1. PICK item \in Results : item = ProcessMessageEvent(event)
    BY ProcessedFacts
  <2>2. /\ item # "too_large" /\ ((item = "envelope") <=> Envelops(event, signer))
        /\ out' = Append(out, item) /\ had_data' = (had_data \/ item = "envelope")
    BY <1>6, <2>1, ProcessedFacts
  <2>3. /\ out' \in Seq(Results) /\ Len(out') = Len(out) + 1
        /\ Items' = Append(Items, item)
    BY <2>2, ItemsGrow
  <2>4. /\ Len(Items') = n + 1 /\ Items'[n + 1] = item
        /\ \A k \in 1..n : Items'[k] = Items[k]
    BY <1>1, <1>2, <2>3, AppendFacts
  <2>5. ItemTypes'
    BY <2>2, <2>3 DEF ItemTypes
  <2>6. \A k \in 1..(n + 1) : (Items'[k] = "envelope") <=> Envelops(Messages'[k], signer')
    <3>1. ASSUME NEW k \in 1..n
          PROVE  (Items'[k] = "envelope") <=> Envelops(Messages'[k], signer')
      <4>1. k \in 1..m /\ Messages'[k] = Messages[k] /\ Items'[k] = Items[k]
        BY <1>3, <1>4, <2>4
      <4>2. (Items[k] = "envelope") <=> Envelops(Messages[k], signer)
        BY <1>4
      <4> QED
        BY <4>1, <4>2
    <3>2. (Items'[n + 1] = "envelope") <=> Envelops(Messages'[n + 1], signer')
      <4>1. Messages'[n + 1] = event /\ Items'[n + 1] = item
        BY <1>3, <1>4, <1>6, <2>4
      <4> QED
        BY <2>2, <4>1
    <3>3. \A k \in 1..(n + 1) : k \in 1..n \/ k = n + 1
      OBVIOUS
    <3> QED
      BY <3>1, <3>2, <3>3
  <2>7. had_data' <=> \E k \in 1..(n + 1) : Items'[k] = "envelope"
    <3>1. \A k \in 1..(n + 1) : k \in 1..n \/ k = n + 1
      OBVIOUS
    <3>2. n + 1 \in 1..(n + 1) /\ \A k \in 1..n : k \in 1..(n + 1)
      OBVIOUS
    <3> QED
      BY <1>4, <2>2, <2>4, <3>1, <3>2
  <2>8. ItemsMatch'
    BY <1>3, <1>4, <1>6, <2>4, <2>6, <2>7 DEF ItemsMatch
  <2> QED
    BY <1>1, <1>2, <1>5, <1>6, <2>3, <2>4, <2>5, <2>8
<1>7. CASE ~open \/ Panics(event)
  <2>1. UNCHANGED <<had_data, out, signer, open>>
    BY <1>7
  <2>2. Items' = Items
    BY <2>1, ItemsGrow
  <2>3. ItemTypes'
    BY <2>1 DEF ItemTypes
  <2>4. ASSUME NEW k \in 1..n
        PROVE  (Items'[k] = "envelope") <=> Envelops(Messages'[k], signer')
    <3>1. k \in 1..m /\ Messages'[k] = Messages[k] /\ Items'[k] = Items[k]
      BY <1>3, <1>4, <2>2
    <3>2. (Items[k] = "envelope") <=> Envelops(Messages[k], signer)
      BY <1>4
    <3> QED
      BY <3>1, <3>2
  <2>5. ItemsMatch'
    BY <1>2, <1>3, <1>4, <1>7, <2>1, <2>2, <2>4 DEF ItemsMatch
  <2> QED
    BY <1>2, <1>3, <1>4, <1>5, <1>7, <2>1, <2>2, <2>3, <2>5
<1> QED
  BY <1>6, <1>7

\* What dispatching a line does, if it is rejected and if it is not
Rejected(next) ==
    /\ Reports = {} /\ Reports' = {Len(fed')} /\ has_data' = FALSE
    /\ open => Len(out') - Len(Items') = Len(out) - Len(Items) + 1
    /\ outcome' = IF next = "running" THEN "error" ELSE next
    /\ Items' = Items /\ Messages' = Messages

Served(next) ==
    /\ Reports' = Reports
    /\ open => Len(out') - Len(Items') = Len(out) - Len(Items)
    /\ \/ outcome' = next
       \/ next = "running" /\ outcome' = "channel_closed" /\ ~open /\ Len(Items') < Len(Messages')
       \/ Reports' = {} /\ outcome' \in Panicked

\* The parser after a line is what the invariant says.
ParserKept == NoResets' /\ EventsAre' /\ (Reports' = {} => LogInv') /\ Len(fed') = Len(fed) + 1

LEMMA RejectKeepsItems ==
    ASSUME ItemsInv, LogTypeOK, NEW line \in Seq(Characters), NEW next,
           TooLarge(line), Reject(line, next), UNCHANGED <<signer, open>>, Reports = {},
           outcome \notin Panicked, next \notin Panicked
    PROVE  ItemTypes' /\ ItemsMatch' /\ PanicsAreLast' /\ ParserKept /\ Rejected(next)
<1>1. ItemTypes /\ ItemsMatch /\ PanicsAreLast /\ NoResets /\ EventsAre
  BY DEF ItemsInv
<1>2. PICK e : Grows(e) /\ ~e.ok /\ e.field # "reset"
  BY RejectGrows, Zenon
<1>3. delivered' = delivered /\ has_data' = FALSE
  BY RejectGrows, Zenon
<1>4. /\ Reports' = Reports \cup {N} /\ NoResets' /\ Len(fed') = N /\ N = Len(fed) + 1
  BY <1>1, <1>2, ReportsGrow
<1>5. EventsAre'
  BY <1>1, <1>2, <1>3, NothingDelivered
<1>6. Reports' = {Len(fed')}
  BY <1>4
<1>7. ParserKept
  BY <1>4, <1>5, <1>6 DEF ParserKept
<1>8. /\ out' = (IF open THEN Append(out, "too_large") ELSE out)
      /\ outcome' = (IF next = "running" THEN "error" ELSE next)
      /\ had_data' = had_data
  BY DEF Reject
<1>9. "too_large" \in Results
  BY DEF Results
<1>10. /\ Items \in Seq(Results) /\ Len(out) \in Nat
       /\ out' \in Seq(Results) /\ Items' = Items
       /\ open => Len(out') = Len(out) + 1
  <2>1. out \in Seq(Results)
    BY <1>1 DEF ItemTypes
  <2>2. CASE open
    BY <1>1, <1>8, <1>9, <2>2, ItemsGrow
  <2>3. CASE ~open
    BY <1>1, <1>8, <2>1, <2>3, ItemsGrow
  <2> QED
    BY <2>2, <2>3
<1>11. Messages' = Messages
  BY <1>3, MessagesGrow
<1>12. ItemTypes'
  BY <1>1, <1>8, <1>10 DEF ItemTypes
<1>13. ItemsMatch' /\ PanicsAreLast'
  <2>1. outcome' \notin Panicked
    BY <1>8 DEF Panicked
  <2> QED
    BY <1>1, <1>8, <1>10, <1>11, <2>1, MatchStays
<1>14. open => Len(out') - Len(Items') = Len(out) - Len(Items) + 1
  <2>1. Len(Items) \in Nat
    BY <1>10
  <2> QED
    BY <1>10, <2>1
<1>15. Rejected(next)
  BY <1>3, <1>6, <1>8, <1>10, <1>11, <1>14, Zenon DEF Rejected
<1> QED
  BY <1>7, <1>12, <1>13, <1>15

LEMMA FeedKeepsItems ==
    ASSUME ItemsInv, LogTypeOK, NEW line \in Seq(Characters), NEW next,
           ~TooLarge(line), FeedLine(line), Forward(next), UNCHANGED <<signer, open>>,
           Reports = {} \/ ~has_data, outcome \notin Panicked, next \notin Panicked
    PROVE  ItemTypes' /\ ItemsMatch' /\ PanicsAreLast' /\ ParserKept /\ Served(next)
<1>1. /\ ItemTypes /\ ItemsMatch /\ PanicsAreLast /\ NoResets /\ EventsAre /\ (Reports = {} => LogInv)
      /\ delivered \in Seq(AnyEvent)
  BY DEF ItemsInv, LogTypeOK
<1>2. PICK e : LineFed(line, e)
  BY FeedLineGrows
<1>3. Grows(e) /\ e.ok /\ e.field # "reset" /\ (LogInv => LogInv')
  BY <1>2, Zenon DEF LineFed
<1>4. Reports' = Reports /\ NoResets' /\ Len(fed') = Len(fed) + 1
  BY <1>1, <1>3, ReportsGrow
<1>5. \/ delivered' = delivered
      \/ has_data /\ \E event \in AnyEvent : delivered' = Append(delivered, event)
  BY <1>2, Zenon DEF LineFed
<1>6. Reports' = {} => LogInv'
  BY <1>1, <1>3, <1>4
<1>7. EventsAre'
  <2>1. CASE Reports = {}
    BY <1>4, <1>6, <2>1 DEF LogInv
  <2>2. CASE Reports # {}
    <3>1. delivered' = delivered
      BY <1>5, <2>2
    <3> QED
      BY <1>1, <1>3, <3>1, NothingDelivered
  <2> QED
    BY <2>1, <2>2
<1>8. ParserKept
  BY <1>4, <1>6, <1>7 DEF ParserKept
<1>9. Items \in Seq(Results) /\ Messages \in Seq(AnyEvent) /\ Len(out) \in Nat
  BY <1>1, ItemsGrow, MessagesGrow
<1>10. ASSUME Messages' = Messages, UNCHANGED <<had_data, out>>, outcome' = next
       PROVE  ItemTypes' /\ ItemsMatch' /\ PanicsAreLast' /\ Served(next)
  <2>1. Items' = Items
    BY <1>1, <1>10, ItemsGrow
  <2>2. ItemTypes'
    BY <1>1, <1>10 DEF ItemTypes
  <2>3. ItemsMatch' /\ PanicsAreLast'
    BY <1>1, <1>10, <2>1, MatchStays
  <2>4. Served(next)
    BY <1>4, <1>10, <2>1, Zenon DEF Served
  <2> QED
    BY <2>2, <2>3, <2>4
<1>11. CASE delivered' = delivered
  <2>1. UNCHANGED <<had_data, out>> /\ outcome' = next
    BY <1>11 DEF Forward
  <2>2. Messages' = Messages
    BY <1>11, MessagesGrow
  <2> QED
    BY <1>8, <1>10, <2>1, <2>2
<1>12. ASSUME NEW event \in AnyEvent, delivered' = Append(delivered, event)
       PROVE  ItemTypes' /\ ItemsMatch' /\ PanicsAreLast' /\ Served(next)
  <2>1. Last(delivered') = event /\ Len(delivered') # Len(delivered)
    <3>1. PICK n \in Nat : n = Len(delivered)
      BY <1>1
    <3>2. Len(delivered') = n + 1 /\ delivered'[n + 1] = event
      BY <1>1, <1>12, <3>1, AppendFacts
    <3> QED
      BY <3>1, <3>2 DEF Last
  <2>2. CASE ~IsMessage(event)
    <3>1. UNCHANGED <<had_data, out>> /\ outcome' = next
      BY <2>1, <2>2 DEF Forward
    <3>2. Messages' = Messages
      BY <1>12, <2>2, MessagesGrow
    <3> QED
      BY <1>10, <3>1, <3>2
  <2>3. CASE IsMessage(event)
    <3>1. Messages' = Append(Messages, event)
      BY <1>12, <2>3, MessagesGrow
    <3>2. \/ /\ Panics(event) /\ UNCHANGED <<had_data, out>>
             /\ outcome' = IF next = "running" THEN "panicked" ELSE "panicked_at_end"
          \/ /\ ~Panics(event) /\ open /\ outcome' = next
             /\ out' = Append(out, ProcessMessageEvent(event))
             /\ had_data' = (had_data \/ ProcessMessageEvent(event) = "envelope")
          \/ /\ ~Panics(event) /\ ~open /\ UNCHANGED <<had_data, out>>
             /\ outcome' = IF next = "running" THEN "channel_closed" ELSE next
      BY <2>1, <2>3 DEF Forward
    <3>3. outcome' \in Panicked <=> Panics(event)
      BY <3>2 DEF Panicked
    <3>4. /\ ItemTypes' /\ ItemsMatch' /\ PanicsAreLast'
          /\ open => Len(out') - Len(Items') = Len(out) - Len(Items)
          /\ ~open => Len(Items') < Len(Messages')
      BY <1>1, <3>1, <3>2, <3>3, MatchGrows
    <3>5. Reports' = {}
      <4>1. delivered' # delivered
        BY <2>1
      <4> QED
        BY <1>4, <1>5, <4>1
    <3>6. \/ outcome' = next
          \/ next = "running" /\ outcome' = "channel_closed" /\ ~open
          \/ outcome' \in Panicked
      BY <3>2, <3>3
    <3>7. Served(next)
      BY <1>4, <3>4, <3>5, <3>6, Zenon DEF Served
    <3> QED
      BY <3>4, <3>7
  <2> QED
    BY <2>2, <2>3
<1> QED
  BY <1>5, <1>8, <1>11, <1>12

\* Dispatching a line, whatever follows
LEMMA DispatchKeepsItems ==
    ASSUME ItemsInv, LogTypeOK, NEW line \in Seq(Characters), NEW next,
           DispatchLine(line, next), UNCHANGED <<signer, open>>,
           Reports = {} \/ (line = <<>> /\ ~has_data),
           outcome \notin Panicked, next \notin Panicked
    PROVE  /\ ItemTypes' /\ ItemsMatch' /\ PanicsAreLast' /\ ParserKept
           /\ Served(next) \/ (line # <<>> /\ Rejected(next))
<1>1. CASE TooLarge(line)
  <2>1. Reject(line, next) /\ line # <<>> /\ Reports = {}
    BY <1>1 DEF DispatchLine, TooLarge
  <2> QED
    BY <1>1, <2>1, RejectKeepsItems
<1>2. CASE ~TooLarge(line)
  <2>1. FeedLine(line) /\ Forward(next)
    BY <1>2 DEF DispatchLine
  <2> QED
    BY <1>2, <2>1, FeedKeepsItems
<1> QED
  BY <1>1, <1>2

\* Nothing is dispatched: at most the receiver drops, or the stream ends.
LEMMA QuietKeepsItems ==
    ASSUME ItemsInv, LogTypeOK, UNCHANGED <<vars, had_data, out, signer>>,
           open' = open \/ open' = FALSE,
           \/ outcome' = outcome
           \/ outcome = "running" /\ outcome' \in {"error", "flushing", "blank_left"}
    PROVE  ItemsInv'
<1>1. /\ ItemTypes /\ ItemsMatch /\ PanicsAreLast /\ ReportsAreLast /\ NoResets /\ ClosedEarly
      /\ EventsAre /\ (Reports = {} => LogInv)
  BY DEF ItemsInv
<1>2. fed' = fed /\ delivered' = delivered /\ has_data' = has_data
  BY DEF vars
<1>3. Items' = Items /\ Messages' = Messages
  BY <1>1, <1>2, ItemsGrow, MessagesGrow
<1>4. Reports' = Reports /\ NoResets'
  BY <1>1, <1>2 DEF Reports, NoResets
<1>5. ItemTypes' /\ ItemsMatch' /\ PanicsAreLast'
  <2>1. ItemTypes'
    BY <1>1 DEF ItemTypes
  <2>2. open' = open \/ ~open'
    OBVIOUS
  <2>3. outcome' \in Panicked <=> outcome \in Panicked
    BY DEF Panicked
  <2> QED
    BY <1>1, <1>3, <2>1, <2>2, <2>3, MatchStays
<1>6. ReportsAreLast'
  <2>1. open' => open
    OBVIOUS
  <2>2. open' => Len(out') = Len(Items') + (IF Reports' = {} THEN 0 ELSE 1)
    BY <1>1, <1>3, <1>4, <2>1 DEF ReportsAreLast
  <2>3. CASE outcome' = outcome
    BY <1>1, <1>2, <1>4, <2>2, <2>3 DEF ReportsAreLast
  <2>4. CASE outcome = "running" /\ outcome' \in {"error", "flushing", "blank_left"}
    <3>1. Reports' = {}
      BY <1>1, <1>4, <2>4 DEF ReportsAreLast
    <3> QED
      BY <2>2, <2>4, <3>1 DEF ReportsAreLast
  <2> QED
    BY <2>3, <2>4
<1>7. ClosedEarly'
  BY <1>1, <1>3 DEF ClosedEarly
<1>8. EventsAre'
  BY <1>1, EventsStutter
<1>9. Reports' = {} => LogInv'
  BY <1>1, <1>4, LogInvStutters
<1> QED
  BY <1>1, <1>4, <1>5, <1>6, <1>7, <1>8, <1>9 DEF ItemsInv

\* A line is dispatched while the stream runs, is flushed or has ended.
LEMMA DispatchKeepsItemsInv ==
    ASSUME ItemsInv, LogTypeOK, NEW line \in Seq(Characters), NEW next,
           DispatchLine(line, next), UNCHANGED <<signer, open>>,
           \/ outcome = "running" /\ next = "running"
           \/ outcome = "flushing" /\ next = "blank_left"
           \/ outcome = "blank_left" /\ next = "clean" /\ line = <<>>
    PROVE  ItemsInv'
<1>1. ReportsAreLast /\ ClosedEarly /\ ItemTypes /\ fed \in Seq(Entry)
  BY DEF ItemsInv, LogTypeOK
<1>2. Reports = {} \/ (line = <<>> /\ ~has_data)
  BY <1>1 DEF ReportsAreLast
<1>3. /\ ItemTypes' /\ ItemsMatch' /\ PanicsAreLast' /\ ParserKept
      /\ Served(next) \/ (line # <<>> /\ Rejected(next))
  <2>1. outcome \notin Panicked /\ next \notin Panicked
    BY DEF Panicked
  <2> QED
    BY <1>2, <2>1, DispatchKeepsItems
<1>4. NoResets' /\ EventsAre' /\ (Reports' = {} => LogInv') /\ Len(fed') = Len(fed) + 1
  BY <1>3 DEF ParserKept
<1>5. /\ Items \in Seq(Results) /\ Len(Items) \in Nat /\ Len(out) \in Nat /\ Len(fed) \in Nat
  BY <1>1, ItemsGrow
<1>6. /\ out' \in Seq(Results) /\ Len(out') \in Nat /\ Len(Items') \in Nat
  <2>1. out' \in Seq(Results)
    BY <1>3 DEF ItemTypes
  <2>2. Items' = Chosen(out', {k \in DOMAIN out' : out'[k] # "too_large"})
    BY DEF Items, Chosen, InOrder
  <2>3. Items' \in Seq(Results)
    BY <2>1, <2>2, ChosenFacts
  <2> QED
    BY <2>1, <2>3
<1>7. open => Len(out) = Len(Items) + (IF Reports = {} THEN 0 ELSE 1)
  BY <1>1 DEF ReportsAreLast
<1>8. CASE Served(next)
  <2>1. /\ Reports' = Reports
        /\ open => Len(out') - Len(Items') = Len(out) - Len(Items)
        /\ \/ outcome' = next
           \/ next = "running" /\ outcome' = "channel_closed" /\ ~open /\ Len(Items') < Len(Messages')
           \/ Reports' = {} /\ outcome' \in Panicked
    BY <1>8 DEF Served
  <2>2. open' => Len(out') = Len(Items') + (IF Reports' = {} THEN 0 ELSE 1)
    BY <1>5, <1>6, <1>7, <2>1
  <2>3. ClosedEarly'
    BY <2>1 DEF ClosedEarly, Panicked
  <2>6. CASE Reports' = {} /\ outcome' \in Panicked
    <3>1. ReportsAreLast'
      BY <2>2, <2>6 DEF ReportsAreLast, Panicked
    <3> QED
      BY <1>3, <1>4, <2>3, <3>1 DEF ItemsInv
  <2>4. CASE outcome = "blank_left" /\ outcome' \notin Panicked
    <3>1. outcome' = "clean" /\ (Reports = {} \/ Reports = {Len(fed)})
      BY <1>1, <2>1, <2>4 DEF ReportsAreLast
    <3>2. Len(fed) = Len(fed') - 1
      BY <1>4, <1>5
    <3>3. ReportsAreLast'
      BY <2>1, <2>2, <2>4, <3>1, <3>2 DEF ReportsAreLast
    <3> QED
      BY <1>3, <1>4, <2>3, <3>3 DEF ItemsInv
  <2>5. CASE outcome # "blank_left" /\ outcome' \notin Panicked
    <3>1. Reports' = {} /\ outcome' \in {"running", "blank_left", "channel_closed"}
      BY <1>1, <2>1, <2>5 DEF ReportsAreLast
    <3>2. ReportsAreLast'
      BY <2>2, <2>5, <3>1 DEF ReportsAreLast
    <3> QED
      BY <1>3, <1>4, <2>3, <3>2 DEF ItemsInv
  <2>7. outcome' \in Panicked => Reports' = {}
    <3>1. next \notin Panicked
      BY DEF Panicked
    <3> QED
      BY <2>1, <3>1 DEF Panicked
  <2> QED
    BY <2>4, <2>5, <2>6, <2>7
<1>9. CASE line # <<>> /\ Rejected(next)
  <2>1. /\ Reports = {} /\ Reports' = {Len(fed')} /\ has_data' = FALSE
        /\ open => Len(out') - Len(Items') = Len(out) - Len(Items) + 1
        /\ outcome' = IF next = "running" THEN "error" ELSE next
    BY <1>9 DEF Rejected
  <2>2. outcome' \in {"error", "blank_left"}
    BY <1>9, <2>1
  <2>3. open' => Len(out') = Len(Items') + (IF Reports' = {} THEN 0 ELSE 1)
    <3>1. ASSUME open PROVE Len(out') = Len(Items') + 1
      <4>1. Len(out) = Len(Items) /\ Len(out') - Len(Items') = Len(out) - Len(Items) + 1
        BY <1>7, <2>1, <3>1
      <4> QED
        BY <1>5, <1>6, <4>1
    <3>2. Reports' # {}
      BY <2>1
    <3> QED
      BY <3>1, <3>2
  <2>4. ReportsAreLast'
    BY <2>1, <2>2, <2>3 DEF ReportsAreLast, Panicked
  <2>5. ClosedEarly'
    BY <2>2 DEF ClosedEarly
  <2> QED
    BY <1>3, <1>4, <2>4, <2>5 DEF ItemsInv
<1> QED
  BY <1>3, <1>8, <1>9

\* Nothing was fed, delivered or put into the channel.
LEMMA ItemsStart == StreamInit => ItemsInv
<1> SUFFICES ASSUME StreamInit PROVE ItemsInv
    OBVIOUS
<1>1. /\ Init /\ had_data = FALSE /\ signer \in BOOLEAN /\ open = TRUE /\ out = <<>>
      /\ outcome = "running" /\ fed = <<>> /\ delivered = <<>>
  BY DEF StreamInit, Init
<1>2. \A V, S : Chosen(<<>>, S) \in Seq(V) /\ Len(Chosen(<<>>, S)) = 0
  <2>1. ASSUME NEW V, NEW S PROVE Chosen(<<>>, S) \in Seq(V) /\ Len(Chosen(<<>>, S)) = 0
    <3>1. PICK empty \in Seq(V) : empty = <<>>
      BY EmptyIsASeq
    <3>2. Len(empty) = 0
      BY <3>1
    <3>3. /\ Chosen(empty, S) \in Seq(V)
          /\ \A j \in 1..Len(Chosen(empty, S)) : \E k \in S \cap 1..Len(empty) : TRUE
      BY ChosenFacts
    <3>4. 1..Len(empty) = {}
      BY <3>2
    <3>5. Len(Chosen(empty, S)) = 0
      BY <3>3, <3>4
    <3> QED
      BY <3>1, <3>3, <3>5
  <2> QED
    BY <2>1
<1>3. Len(Items) = 0 /\ Len(Messages) = 0
  BY <1>1, <1>2 DEF Items, Messages
<1>4. Reports = {} /\ NoResets
  <2>1. DOMAIN fed = {}
    BY <1>1
  <2> QED
    BY <2>1 DEF Reports, NoResets
<1>5. LogInv /\ EventsAre
  BY <1>1, LogInvInit DEF LogInv
<1>6. ItemTypes
  BY <1>1, EmptyIsASeq DEF ItemTypes
<1>7. ItemsMatch /\ PanicsAreLast
  <2>1. outcome \notin Panicked
    BY <1>1 DEF Panicked
  <2>2. ItemsMatch
    <3>1. 1..Len(Items) = {}
      BY <1>3
    <3>2. PICK lost : lost = IF outcome \in Panicked THEN 1 ELSE 0
      OBVIOUS
    <3>3. lost = 0
      BY <2>1, <3>2, Zenon
    <3>4. Len(Items) = Len(Messages) - lost
      BY <1>3, <3>3
    <3>5. ~had_data /\ Len(Items) <= Len(Messages)
      BY <1>1, <1>3
    <3> QED
      BY <3>1, <3>2, <3>4, <3>5, Zenon DEF ItemsMatch
  <2>3. PanicsAreLast
    BY <1>3, <2>1 DEF PanicsAreLast
  <2> QED
    BY <2>2, <2>3
<1>8. ReportsAreLast
  <2>1. Len(out) = 0
    BY <1>1
  <2> QED
    BY <1>1, <1>3, <1>4, <2>1 DEF ReportsAreLast
<1>9. ClosedEarly
  BY <1>1 DEF ClosedEarly
<1> QED
  BY <1>4, <1>5, <1>6, <1>7, <1>8, <1>9 DEF ItemsInv

LEMMA ItemsNext == StreamTypes /\ ItemsInv /\ [StreamNext]_allVars => ItemsInv'
<1> SUFFICES ASSUME StreamTypes, ItemsInv, [StreamNext]_allVars PROVE ItemsInv'
    OBVIOUS
<1>1. LogTypeOK /\ line_buf \in Seq(Characters)
  BY DEF StreamTypes
<1>2. CASE ReadLF \/ ReadCR
  <2>1. /\ outcome = "running" /\ DispatchLine(line_buf, "running")
        /\ UNCHANGED <<signer, open>>
    BY <1>2 DEF ReadLF, ReadCR, Read
  <2>2. PICK next : next = "running"
    OBVIOUS
  <2> QED
    BY <1>1, <2>1, <2>2, DispatchKeepsItemsInv, Zenon
<1>3. CASE FlushLine
  <2>1. /\ outcome = "flushing" /\ DispatchLine(line_buf, "blank_left")
        /\ UNCHANGED <<signer, open>>
    BY <1>3 DEF FlushLine
  <2>2. PICK next : next = "blank_left"
    OBVIOUS
  <2> QED
    BY <1>1, <2>1, <2>2, DispatchKeepsItemsInv, Zenon
<1>4. CASE FlushBlank
  <2>1. /\ outcome = "blank_left" /\ DispatchLine(<<>>, "clean")
        /\ UNCHANGED <<signer, open>>
    BY <1>4 DEF FlushBlank
  <2>2. PICK next : next = "clean"
    OBVIOUS
  <2>3. PICK line \in Seq(Characters) : line = <<>>
    BY EmptyIsASeq
  <2> QED
    BY <1>1, <2>1, <2>2, <2>3, DispatchKeepsItemsInv, Zenon
<1>5. CASE \/ ReadLFOfPair \/ ReadFails \/ StreamEnds \/ ReceiverDrops
           \/ (\E byte \in DOMAIN FieldOf : ReadByte(byte))
           \/ UNCHANGED allVars
  <2>1. /\ UNCHANGED <<vars, had_data, out, signer>>
        /\ open' = open \/ open' = FALSE
        /\ \/ outcome' = outcome
           \/ outcome = "running" /\ outcome' \in {"error", "flushing", "blank_left"}
    <3>1. CASE ReadLFOfPair
      BY <3>1 DEF ReadLFOfPair, Read
    <3>2. CASE ReadFails \/ StreamEnds \/ ReceiverDrops
      BY <3>2 DEF ReadFails, StreamEnds, ReceiverDrops
    <3>3. CASE UNCHANGED allVars
      BY <3>3 DEF allVars, streamVars
    <3>4. CASE \E byte \in DOMAIN FieldOf : ReadByte(byte)
      BY <3>4 DEF ReadByte, Read
    <3> QED
      BY <1>5, <3>1, <3>2, <3>3, <3>4
  <2> QED
    BY <1>1, <2>1, QuietKeepsItems
<1> QED
  BY <1>2, <1>3, <1>4, <1>5 DEF StreamNext

\* What the invariant says of the items is what the stream promises.
LEMMA ItemsInvMeans ==
    ASSUME StreamTypes, ItemsInv
    PROVE  ItemsAreEvents
<1>1. /\ ItemTypes /\ ItemsMatch /\ PanicsAreLast /\ ReportsAreLast /\ NoResets /\ ClosedEarly /\ EventsAre
      /\ LogTypeOK /\ fed \in Seq(Entry) /\ delivered \in Seq(AnyEvent)
      /\ outcome \in Outcomes
  BY DEF ItemsInv, StreamTypes, LogTypeOK
<1>2. /\ Items \in Seq(Results) /\ Messages \in Seq(AnyEvent)
      /\ DOMAIN Items = 1..Len(Items) /\ Len(fed) \in Nat /\ DOMAIN fed = 1..Len(fed)
      /\ Len(Items) \in Nat /\ Len(Messages) \in Nat
  BY <1>1, ItemsGrow, MessagesGrow
<1> DEFINE OwnLine(k) == LastSince("signature",
                           1 + Max({0} \cup {n \in 1..(Messages[k].at - 1) : n \in CompletedAt}),
                           Messages[k].at)
           Signed(k) == OwnLine(k) = {AllDigits(2 * JoinedLen(Messages[k].data))}
           Spoilt(k) == signer /\ \E v \in OwnLine(k) : \E n \in 0..v : v = SomeWide(2 * n)
<1>3. ASSUME NEW k \in 1..Len(Messages)
      PROVE  /\ Envelops(Messages[k], signer) <=> /\ JoinedLen(Messages[k].data) = 1
                                                  /\ signer => Signed(k)
             /\ Spoilt(k) <=> Unreadable(Messages[k], signer)
  <2>2. PICK j \in 1..Len(delivered) : Messages[k] = delivered[j]
    <3>1. PICK S : S = {n \in DOMAIN delivered : IsMessage(delivered[n])}
      OBVIOUS
    <3>2. Messages = Chosen(delivered, S)
      BY <3>1 DEF Messages
    <3>3. \A n \in 1..Len(Messages) :
             \E m \in S \cap 1..Len(delivered) : Messages[n] = delivered[m]
      BY <1>1, <3>2, ChosenFacts
    <3> QED
      BY <3>3
  <2>3. PICK event : event = Messages[k]
    OBVIOUS
  <2>4. event \in RightEvents
    BY <1>1, <2>2, <2>3 DEF EventsAre
  <2>5. /\ event.at \in CompletedAt /\ event.data_len = JoinedLen(event.data)
        /\ event.signature = Since("signature", event.at)
    BY <2>4 DEF RightEvents, EventIs
  <2>6. event.at \in 1..Len(fed)
    BY <1>2, <2>5 DEF CompletedAt
  <2>7. From(event.at) = 1 + Max({0} \cup {n \in 1..(event.at - 1) : n \in CompletedAt})
    <3>1. \A n \in 1..(event.at - 1) : n \in 1..Len(fed)
      BY <2>6
    <3>2. \A n \in 1..(event.at - 1) : fed[n].field # "reset"
      BY <1>1, <1>2, <3>1 DEF NoResets
    <3>3. {n \in 1..(event.at - 1) : fed[n].field = "reset" \/ n \in CompletedAt}
            = {n \in 1..(event.at - 1) : n \in CompletedAt}
      BY <3>2
    <3> QED
      BY <3>3 DEF From
  <2>8. OwnLine(k) = event.signature
    BY <2>3, <2>5, <2>7 DEF Since
  <2> HIDE DEF OwnLine
  <2>9. Signed(k) <=> VerifyHex(event)
    BY <2>3, <2>5, <2>8 DEF VerifyHex
  <2>10. Spoilt(k) <=> Unreadable(event, signer)
    BY <2>8 DEF Unreadable, HexDecodePanics
  <2>11. Envelops(event, signer) <=> event.data_len = 1 /\ (signer => VerifyHex(event))
    BY DEF Envelops
  <2> HIDE DEF Signed, Spoilt
  <2> QED
    BY <2>3, <2>5, <2>9, <2>10, <2>11
<1> HIDE DEF OwnLine, Signed, Spoilt
<1>4. open => /\ Len(Items) = Len(Messages) - (IF outcome \in Panicked THEN 1 ELSE 0)
              /\ Len(out) = Len(Items) + Cardinality(Reports)
  <2>1. Reports = {} \/ \E x : Reports = {x}
    BY <1>1 DEF ReportsAreLast, Outcomes, Panicked
  <2>2. Cardinality(Reports) = IF Reports = {} THEN 0 ELSE 1
    BY <2>1, FS_EmptySet, FS_Singleton
  <2> QED
    BY <1>1, <2>2 DEF ItemsMatch, ReportsAreLast
<1>5. \A k \in Reports : k < Len(fed) => outcome = "clean" /\ k = Len(fed) - 1
  BY <1>1, <1>2 DEF ReportsAreLast, Outcomes, Panicked
<1>6. had_data <=> Contains(Items, "envelope")
  BY <1>1 DEF ItemsMatch, Contains
<1>7. Len(Items) <= Len(Messages)
  BY <1>1 DEF ItemsMatch
<1>8. outcome = "channel_closed" => ~open /\ Len(Items) < Len(Messages)
  BY <1>1 DEF ClosedEarly
<1>9. \A k \in DOMAIN Items :
         Items[k] = "envelope" <=> /\ JoinedLen(Messages[k].data) = 1
                                   /\ signer => Signed(k)
  <2>1. \A k \in 1..Len(Items) : k \in 1..Len(Messages)
    BY <1>2, <1>7
  <2>2. \A k \in 1..Len(Items) : (Items[k] = "envelope") <=> Envelops(Messages[k], signer)
    BY <1>1 DEF ItemsMatch
  <2> QED
    BY <1>2, <1>3, <2>1, <2>2
<1>10. /\ outcome \in Panicked <=> \E k \in DOMAIN Messages : Spoilt(k)
       /\ \A k \in DOMAIN Messages : Spoilt(k) => k = Len(Messages)
  <2>1. DOMAIN Messages = 1..Len(Messages)
    BY <1>2
  <2>2. \A k \in 1..Len(Messages) :
           Spoilt(k) <=> outcome \in Panicked /\ k = Len(Messages)
    BY <1>1, <1>3 DEF PanicsAreLast
  <2>3. PICK n \in Nat : n = Len(Messages)
    BY <1>2
  <2>4. outcome \in Panicked => n \in 1..n
    BY <1>1, <2>3 DEF PanicsAreLast
  <2>5. outcome \in Panicked => n \in 1..n /\ Spoilt(n)
    BY <2>2, <2>3, <2>4, Zenon
  <2> QED
    BY <2>1, <2>2, <2>3, <2>5, Zenon
<1> USE DEF OwnLine, Signed, Spoilt
<1> QED
  BY <1>4, <1>5, <1>6, <1>7, <1>8, <1>9, <1>10, Zenon DEF ItemsAreEvents, Reports

\* For every body, key and receiver, the channel gets an item for each message
\* and a report of a line too large, and nothing else; but for a message whose
\* signature hex_decode cannot cut into pairs, which makes no item and is the
\* last (http.rs:148-156, 412-447, 503-512, 518-555).
THEOREM ItemsAreAlwaysEvents == StreamSpec => []ItemsAreEvents
<1>1. StreamInit => ItemsInv /\ StreamTypes
  BY ItemsStart, LinesStart
<1>2. StreamTypes /\ ItemsInv => ItemsAreEvents
  BY ItemsInvMeans
<1> QED
  BY <1>1, <1>2, LinesHold, ItemsNext, PTL DEF StreamSpec

-----------------------------------------------------------------------------
\* The parser's memory stays bounded in the stream, too, whatever lines the
\* body has and however often it is too much for the parser: a rejection ends
\* the stream, and what follows the end of the body finds an empty parser
\* (http.rs:421-447, 503-512; lib.rs:67-77).
THEOREM StreamAccumulationStaysBounded == StreamSpec => []AccumulationIsBounded
<1>1. StreamInit => AccumulationIsBounded
  <2> SUFFICES ASSUME StreamInit PROVE AccumulationIsBounded
      OBVIOUS
  <2>1. data_len = 0 /\ DOMAIN delivered = {} /\ max_event_data_bytes \in Nat
    BY SseParserAssumption DEF StreamInit, Init
  <2> QED
    BY <2>1 DEF AccumulationIsBounded
<1>2. ASSUME LogTypeOK, AccumulationIsBounded, NEW line \in Seq(Characters), NEW next,
             DispatchLine(line, next)
      PROVE  AccumulationIsBounded'
  <2>1. /\ max_event_data_bytes \in Nat /\ data_len \in Nat /\ data_len <= max_event_data_bytes
        /\ delivered \in Seq(AnyEvent)
        /\ \A k \in DOMAIN delivered : delivered[k].data_len <= max_event_data_bytes
    BY <1>2 DEF LogTypeOK, AccumulationIsBounded
  <2>2. CASE TooLarge(line)
    <3>1. /\ data_len' = 0 /\ delivered' = delivered
          /\ max_event_data_bytes' = max_event_data_bytes
      BY <1>2, <2>2 DEF DispatchLine, Reject, ClearCurrent
    <3> QED
      BY <2>1, <3>1 DEF AccumulationIsBounded
  <2>3. ASSUME ~TooLarge(line), UNCHANGED <<data_len, delivered, max_event_data_bytes>>
        PROVE  AccumulationIsBounded'
    BY <2>1, <2>3 DEF AccumulationIsBounded
  <2>4. CASE ~TooLarge(line) /\ line = <<>> /\ FeedBlank
    <3>1. CASE has_data
      <4> DEFINE event == [event_type |-> event_type, signature |-> signature,
                           data |-> data, data_len |-> data_len, at |-> Len(fed) + 1]
      <4>1. /\ delivered' = Append(delivered, event) /\ data_len' = 0
            /\ max_event_data_bytes' = max_event_data_bytes
        BY <2>4, <3>1 DEF FeedBlank, ClearCurrent
      <4>2. event.data_len <= max_event_data_bytes /\ event \in AnyEvent
        BY <1>2, <2>1 DEF LogTypeOK, AnyEvent
      <4> HIDE DEF event
      <4>3. PICK n \in Nat : n = Len(delivered)
        BY <2>1
      <4>4. /\ DOMAIN delivered = 1..n /\ DOMAIN delivered' = 1..(n + 1)
            /\ delivered'[n + 1] = event
            /\ \A k \in 1..n : delivered'[k] = delivered[k]
        BY <2>1, <4>1, <4>2, <4>3, AppendFacts
      <4>5. \A k \in 1..(n + 1) : k \in 1..n \/ k = n + 1
        BY <4>3
      <4> QED
        BY <2>1, <4>1, <4>2, <4>4, <4>5 DEF AccumulationIsBounded
    <3>2. CASE ~has_data
      BY <2>3, <2>4, <3>2 DEF FeedBlank, current
    <3> QED
      BY <3>1, <3>2
  <2>5. CASE ~TooLarge(line) /\ line[1] = "D" /\ line # <<>> /\ FeedData(ValueOf(line))
    <3>1. /\ delivered' = delivered /\ max_event_data_bytes' = max_event_data_bytes
          /\ \/ data_len' = NewLen(ValueOf(line)) /\ NewLen(ValueOf(line)) <= max_event_data_bytes
             \/ data_len' = data_len
      BY <2>5 DEF FeedData
    <3> QED
      BY <2>1, <3>1 DEF AccumulationIsBounded
  <2>6. CASE ~TooLarge(line) /\ (\/ FeedEventType(ValueOf(line)) \/ FeedSignature(ValueOf(line))
                                 \/ FeedIgnored)
    BY <2>3, <2>6 DEF FeedEventType, FeedSignature, FeedIgnored, current
  <2>7. CASE ~TooLarge(line)
    <3>1. FeedLine(line)
      BY <1>2, <2>7 DEF DispatchLine
    <3> QED
      BY <2>4, <2>5, <2>6, <2>7, <3>1, <1>2, FeedLineIs
  <2> QED
    BY <2>2, <2>7
<1>3. ASSUME StreamTypes, AccumulationIsBounded, [StreamNext]_allVars
      PROVE  AccumulationIsBounded'
  <2>1. LogTypeOK /\ line_buf \in Seq(Characters) /\ <<>> \in Seq(Characters)
    BY <1>3, EmptyIsASeq DEF StreamTypes
  <2>2. CASE UNCHANGED vars
    BY <1>3, <2>2 DEF AccumulationIsBounded, vars, current
  <2>3. CASE \E line \in Seq(Characters) : \E next : DispatchLine(line, next)
    BY <1>2, <1>3, <2>1, <2>3
  <2>4. CASE ReadLF \/ ReadCR
    BY <2>1, <2>3, <2>4, Zenon DEF ReadLF, ReadCR
  <2>5. CASE FlushLine \/ FlushBlank
    BY <2>1, <2>3, <2>5, Zenon DEF FlushLine, FlushBlank
  <2>6. CASE \/ ReadLFOfPair \/ ReadFails \/ StreamEnds \/ ReceiverDrops
             \/ (\E byte \in DOMAIN FieldOf : ReadByte(byte)) \/ UNCHANGED allVars
    <3>1. UNCHANGED vars
      BY <2>6 DEF ReadLFOfPair, ReadFails, StreamEnds, ReceiverDrops, ReadByte, allVars
    <3> QED
      BY <2>2, <3>1
  <2> QED
    BY <1>3, <2>4, <2>5, <2>6 DEF StreamNext
<1>4. StreamTypes /\ AccumulationIsBounded /\ [StreamNext]_allVars => AccumulationIsBounded'
  BY <1>3
<1> QED
  BY <1>1, <1>4, LinesHold, PTL DEF StreamSpec
=============================================================================
