------------------------------ MODULE SpmVersions ------------------------------
(***************************************************************************)
(* Versions (src/src/types/version.rs): how they are taken apart and       *)
(* compared.  A version is a sequence of bytes.                            *)
(***************************************************************************)
EXTENDS Integers, Sequences

Bytes  == 33..126   \* printable and not blank: there is nothing for trim to remove
Zero   == 48
Plus   == 43
Dot    == 46
Tilde  == 126
Colon  == 58
Hyphen == 45
Digits  == 48..57
Letters == 65..90 \cup 97..122
Separators == Bytes \ (Digits \cup Letters)

\* The first position from i on whose byte is not one of S, or the one after the end.
Skip(s, i, S) ==
  CHOOSE j \in i..Len(s) + 1 : /\ j = Len(s) + 1 \/ s[j] \notin S
                               /\ \A k \in i..j - 1 : s[k] \in S
Sign(x) == IF x < 0 THEN -1 ELSE IF x > 0 THEN 1 ELSE 0

\* What the first i digits say, for every i.
Values(s) == LET n[i \in 0..Len(s)] == IF i = 0 THEN 0 ELSE 10 * n[i - 1] + (s[i] - Zero) IN n
Number(s) == Values(s)[Len(s)]

\* str::parse::<u32>, or 0: digits after a plus, which the number of must fit into 32 bits.
Epoch(s) ==
  LET digits == IF s # <<>> /\ s[1] = Plus THEN SubSeq(s, 2, Len(s)) ELSE s
  IN  IF digits # <<>> /\ (\A i \in DOMAIN digits : digits[i] \in Digits) /\ Number(digits) \div 65536 < 65536
      THEN Number(digits) ELSE 0

\* Version::parse: the epoch is in front of the first colon, the release after the last hyphen.
Parse(s) ==
  LET colon  == Skip(s, 1, Bytes \ {Colon})
      rest   == IF colon > Len(s) THEN s ELSE SubSeq(s, colon + 1, Len(s))
      hyphen == CHOOSE i \in 1..Len(rest) + 1 :
                  /\ i = Len(rest) + 1 => \A j \in 1..Len(rest) : rest[j] # Hyphen
                  /\ i <= Len(rest) => rest[i] = Hyphen /\ \A j \in i + 1..Len(rest) : rest[j] # Hyphen
  IN  [epoch   |-> IF colon > Len(s) THEN 0 ELSE Epoch(SubSeq(s, 1, colon - 1)),
       version |-> SubSeq(rest, 1, hyphen - 1), release |-> SubSeq(rest, hyphen + 1, Len(rest))]

\* The order of slices of bytes.
BytesCmp(x, y) ==
  LET ds == {i \in DOMAIN x \cap DOMAIN y : x[i] # y[i]}
  IN  IF ds = {} THEN Sign(Len(x) - Len(y))
      ELSE LET d == CHOOSE i \in ds : \A j \in ds : i <= j IN Sign(x[d] - y[d])

\* Mutation: digits are compared as text is.
NumCmpText(x, y) == BytesCmp(x, y)

\* Without leading zeros the longer number is the greater one.
NumCmp(x, y) == IF Len(x) # Len(y) THEN Sign(Len(x) - Len(y)) ELSE BytesCmp(x, y)

\* The segment at a letter or digit: where it ends, and where its digits begin without leading
\* zeros, the last of which stays when nothing else is left.
SegmentEnd(s, m)  == Skip(s, m, IF s[m] \in Digits THEN Digits ELSE Letters)
Significant(s, m) ==
  CHOOSE z \in m..Len(s) : /\ ~(s[z] = Zero /\ z < Len(s) /\ s[z + 1] \in Digits)
                           /\ \A k \in m..z - 1 : s[k] = Zero /\ s[k + 1] \in Digits

\* The segments at m and n compared, and if they are equal what comes after them, which is cmp.
Segments(a, b, m, n, cmp) ==
  LET i == SegmentEnd(a, m)
      j == SegmentEnd(b, n)
      c == IF a[m] \in Digits
           THEN NumCmp(SubSeq(a, Significant(a, m), i - 1), SubSeq(b, Significant(b, n), j - 1))
           ELSE BytesCmp(SubSeq(a, m, i - 1), SubSeq(b, n, j - 1))
  IN  CASE a[m] \in Digits /\ b[n] \in Letters -> -1
        [] a[m] \in Letters /\ b[n] \in Digits -> 1
        [] OTHER -> IF c # 0 THEN c ELSE cmp[<<i, j>>]

\* A turn of the loop of rpmvercmp at the positions i and j, with cmp for the turns after it.
AtTilde(s, i) == i <= Len(s) /\ s[i] = Tilde
Turn(a, b, i, j, cmp) ==
  LET m == Skip(a, i, Separators)
      n == Skip(b, j, Separators)
  IN  CASE i > Len(a) /\ j > Len(b)            -> 0
        [] AtTilde(a, i) /\ AtTilde(b, j)      -> cmp[<<i + 1, j + 1>>]
        [] AtTilde(a, i) /\ ~AtTilde(b, j)     -> -1
        [] ~AtTilde(a, i) /\ AtTilde(b, j)     -> 1
        [] OTHER -> IF m > Len(a) \/ n > Len(b) THEN Sign((Len(a) - m) - (Len(b) - n))
                    ELSE Segments(a, b, m, n, cmp)
Turns(a, b) ==
  LET cmp[p \in (1..Len(a) + 1) \X (1..Len(b) + 1)] == Turn(a, b, p[1], p[2], cmp) IN cmp
rpmvercmp(a, b) == IF a = b THEN 0 ELSE Turns(a, b)[<<1, 1>>]

\* impl Ord for Version
Cmp(v, w) ==
  LET epochs   == Sign(v.epoch - w.epoch)
      versions == rpmvercmp(v.version, w.version)
  IN  IF epochs # 0 THEN epochs
      ELSE IF versions # 0 THEN versions ELSE rpmvercmp(v.release, w.release)

-----------------------------------------------------------------------------
(* What the order means: that of keys, which are read off one string alone. *)

\* The segments of a string as numbers: a tilde is before the end, the end before a number, and a
\* number before a word.  No key is the beginning of another one.
KeyAt(s, i, key) ==
  LET m == Skip(s, i, Separators)
      e == SegmentEnd(s, m)
      t == SubSeq(s, m, e - 1)
  IN  CASE AtTilde(s, i)                   -> <<0>> \o key[i + 1]
        [] ~AtTilde(s, i) /\ m > Len(s)    -> <<1>>
        [] OTHER -> (IF s[m] \in Digits THEN <<2, Number(t)>> ELSE <<3>> \o t \o <<0>>) \o key[e]
Keys(s) == LET key[i \in 1..Len(s) + 1] == KeyAt(s, i, key) IN key
SegmentsKey(s) == Keys(s)[1]
KeyOf(s) == LET v == Parse(s) IN <<v.epoch>> \o SegmentsKey(v.version) \o SegmentsKey(v.release)

Lesser(x, y) == \E i \in DOMAIN x \cap DOMAIN y : x[i] < y[i] /\ \A j \in 1..i - 1 : x[j] = y[j]
Before(s, t) == \E x \in {KeyOf(s)}, y \in {KeyOf(t)} : Lesser(x, y)
=============================================================================
