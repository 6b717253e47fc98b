--------------------- MODULE ResourceNameGrammar_proofs ---------------------
(***************************************************************************)
(* The parser and the grammar agree on names of any length, made of any    *)
(* segments: TLC compares them on all short names, here the decisions of   *)
(* the parser are followed from the marker to the size.                    *)
(***************************************************************************)
EXTENDS ResourceNameGrammar, WellFoundedInduction, TLAPS

\* Every non-empty set of natural numbers has a least element.
LEMMA LeastNumber ==
    ASSUME NEW T \in SUBSET Nat, T # {}
    PROVE  \E m \in T : \A n \in T : m <= n
<1> DEFINE less == OpToRel(<, Nat)
<1>1. \A n, m \in Nat : n < m => <<n, m>> \in less
  BY DEF OpToRel
<1>2. IsWellFoundedOn(less, Nat)
  BY NatLessThanWellFounded
<1> HIDE DEF less
<1>3. PICK m \in T : \A n \in T : <<n, m>> \notin less
  BY <1>2, WFMin
<1>4. \A n \in T : m \in Nat /\ n \in Nat /\ ~(n < m)
  BY <1>1, <1>3
<1> QED
  BY <1>4

-----------------------------------------------------------------------------
(* Where the parser finds the parts of a name *)

\* Position m is that of the first marker.
FirstMarker(parts, m) ==
    /\ m \in 1..Len(parts)
    /\ parts[m] \in Markers
    /\ \A i \in 1..(m - 1) : parts[i] \notin Markers

\* There is one such position, if any, and the parser splits the name there.
LEMMA MarkerFound ==
    ASSUME NEW S, NEW parts \in Seq(S)
    PROVE  /\ MarkerIndex(parts) # 0 => FirstMarker(parts, MarkerIndex(parts))
           /\ \A m : FirstMarker(parts, m) => MarkerIndex(parts) = m
<1> DEFINE found == {i \in 1..Len(parts) : parts[i] \in Markers}
           first == CHOOSE i \in found : \A j \in found : i <= j
<1>1. MarkerIndex(parts) = IF found # {} THEN first ELSE 0
  BY DEF MarkerIndex, SeqExt!SelectInSeq, SeqExt!Min
<1>2. ASSUME found # {}
      PROVE  first \in found /\ \A j \in found : first <= j
  <2>1. \E i \in found : \A j \in found : i <= j
    <3>1. found \in SUBSET Nat
      OBVIOUS
    <3> HIDE DEF found
    <3> QED
      BY <1>2, <3>1, LeastNumber
  <2> QED
    BY <2>1
<1> HIDE DEF first
<1>3. ASSUME found # {}
      PROVE  FirstMarker(parts, first)
  <2>1. first \in 1..Len(parts) /\ parts[first] \in Markers
    BY <1>2, <1>3
  <2>2. ASSUME NEW i \in 1..(first - 1), parts[i] \in Markers
        PROVE  FALSE
    <3>1. i \in found /\ i < first
      BY <2>1, <2>2
    <3> QED
      BY <1>2, <1>3, <2>1, <3>1
  <2> QED
    BY <2>1, <2>2 DEF FirstMarker
<1>4. ASSUME NEW m, FirstMarker(parts, m)
      PROVE  found # {} /\ first = m
  <2>1. m \in found
    BY <1>4 DEF FirstMarker
  <2>2. first <= m /\ first \in 1..Len(parts) /\ parts[first] \in Markers
    BY <1>2, <2>1
  <2>3. ~(first < m)
    BY <1>4, <2>2 DEF FirstMarker
  <2> QED
    BY <2>1, <2>2, <2>3
<1> QED
  BY <1>1, <1>3, <1>4

\* A part of the beginning of a sequence.
LEMMA SubSeqOfSubSeq ==
    ASSUME NEW S, NEW s \in Seq(S), NEW m \in 0..Len(s), NEW n \in Int, n <= m
    PROVE  SubSeq(SubSeq(s, 1, m), 1, n) = SubSeq(s, 1, n)
<1> DEFINE front == SubSeq(s, 1, m)
<1>1. front \in Seq(S) /\ Len(front) = m /\ \A i \in 1..m : front[i] = s[i]
  OBVIOUS
<1> HIDE DEF front
<1>2. /\ SubSeq(front, 1, n) = [i \in 1..n |-> front[i]]
      /\ SubSeq(s, 1, n) = [i \in 1..n |-> s[i]]
  BY <1>1
<1>3. \A i \in 1..n : front[i] = s[i]
  BY <1>1
<1> QED
  BY <1>2, <1>3 DEF front

\* The segments before the marker ...
LEMMA PrefixParts ==
    ASSUME NEW S, NEW parts \in Seq(S), FirstMarker(parts, MarkerIndex(parts))
    PROVE  LET m == MarkerIndex(parts) IN
           /\ Prefix(parts) = SubSeq(parts, 1, m - 1)
           /\ Len(Prefix(parts)) = m - 1
           /\ HasUploadId(parts) <=> EndsInUpload(SubSeq(parts, 1, m - 1))
           /\ HasUploadId(parts) => m - 1 >= 2
           /\ InstanceOf(parts) =
                 Joined(SubSeq(parts, 1, m - (IF HasUploadId(parts) THEN 2 ELSE 0) - 1))
<1> DEFINE m == MarkerIndex(parts)
<1>1. m \in 1..Len(parts)
  BY DEF FirstMarker
<1> HIDE DEF m
<1>2. Prefix(parts) = SubSeq(parts, 1, m - 1) /\ Len(SubSeq(parts, 1, m - 1)) = m - 1
  BY <1>1 DEF Prefix, m
<1>3. HasUploadId(parts) <=> EndsInUpload(SubSeq(parts, 1, m - 1))
  BY <1>2 DEF HasUploadId, EndsInUpload
<1>4. HasUploadId(parts) => m - 1 >= 2
  BY <1>2 DEF HasUploadId
<1>5. CASE HasUploadId(parts)
  <2>1. SubSeq(SubSeq(parts, 1, m - 1), 1, m - 3) = SubSeq(parts, 1, m - 3)
    <3>1. m - 1 \in 0..Len(parts) /\ m - 3 \in Int /\ m - 3 <= m - 1
      BY <1>1
    <3> QED
      BY <3>1, SubSeqOfSubSeq
  <2>2. m - 1 - 2 = m - 3 /\ m - 2 - 1 = m - 3
    BY <1>1
  <2>3. InstanceOf(parts) = Joined(SubSeq(Prefix(parts), 1, Len(Prefix(parts)) - 2))
    BY <1>5 DEF InstanceOf
  <2> QED
    BY <1>2, <1>3, <1>4, <1>5, <2>1, <2>2, <2>3 DEF m
<1>6. CASE ~HasUploadId(parts)
  <2>1. m - 0 - 1 = m - 1
    BY <1>1
  <2> QED
    BY <1>2, <1>3, <1>4, <1>6, <2>1 DEF InstanceOf, m
<1> QED
  BY <1>5, <1>6

\* ... and those after it, after the method if one is named.
LEMMA SuffixParts ==
    ASSUME NEW S, NEW parts \in Seq(S), FirstMarker(parts, MarkerIndex(parts)),
           IsCompressed(parts) => MarkerIndex(parts) < Len(parts)
    PROVE  LET m == MarkerIndex(parts)
               start == m + (IF IsCompressed(parts) THEN 1 ELSE 0)
           IN  /\ Len(Suffix(parts)) = Len(parts) - m
               /\ m < Len(parts) => Suffix(parts)[1] = parts[m + 1]
               /\ Len(DigestParts(parts)) = Len(parts) - start
               /\ \A i \in 1..(Len(parts) - start) : DigestParts(parts)[i] = parts[start + i]
<1> DEFINE m == MarkerIndex(parts)
<1>1. m \in 1..Len(parts) /\ Len(parts) \in Nat
  BY DEF FirstMarker
<1> HIDE DEF m
<1>2. /\ Suffix(parts) \in Seq(S)
      /\ Len(Suffix(parts)) = Len(parts) - m
      /\ \A i \in 1..(Len(parts) - m) : Suffix(parts)[i] = parts[m + i]
  BY <1>1 DEF Suffix, m
<1>3. CASE ~IsCompressed(parts)
  BY <1>1, <1>2, <1>3 DEF DigestParts, m
<1>4. CASE IsCompressed(parts)
  <2>1. m < Len(parts)
    BY <1>4 DEF m
  <2>2. DigestParts(parts) = Tail(Suffix(parts)) /\ Suffix(parts) # << >>
    BY <1>1, <1>2, <1>4, <2>1 DEF DigestParts
  <2>3. /\ Len(DigestParts(parts)) = Len(parts) - m - 1
        /\ \A i \in 1..(Len(parts) - m - 1) : DigestParts(parts)[i] = Suffix(parts)[i + 1]
    BY <1>1, <1>2, <2>2
  <2>4. ASSUME NEW i \in 1..(Len(parts) - m - 1)
        PROVE  DigestParts(parts)[i] = parts[m + 1 + i]
    <3>1. i + 1 \in 1..(Len(parts) - m) /\ m + (i + 1) = m + 1 + i
      BY <1>1
    <3> QED
      BY <1>2, <2>3, <3>1
  <2>5. Len(parts) - (m + 1) = Len(parts) - m - 1
    BY <1>1
  <2> QED
    BY <1>1, <1>2, <1>4, <2>1, <2>3, <2>4, <2>5 DEF m
<1> QED
  BY <1>3, <1>4

-----------------------------------------------------------------------------
(* What the grammar says of the same parts *)

\* The positions of a reading are positions of the name.
LEMMA ReadingPositions ==
    ASSUME name \in Seq(Segments), NEW r \in Reading, Grammatical(r)
    PROVE  /\ Len(name) \in Nat
           /\ r.marker \in 1..Len(name) /\ r.upload \in {0, 2}
           /\ r.method \in 0..1 /\ r.function \in 0..1
           /\ HashAt(r) = r.marker + r.method + r.function + 1
           /\ HashAt(r) < Len(name)
           /\ r.method = 1 <=> name[r.marker] = "compressed-blobs"
           /\ name[r.marker] \in Markers
<1>1. /\ Len(name) \in Nat
      /\ r.marker \in 1..Len(name) /\ r.upload \in {0, 2}
      /\ r.method \in 0..1 /\ r.function \in 0..1
  BY DEF Reading
<1>2. HashAt(r) = r.marker + r.method + r.function + 1 /\ HashAt(r) < Len(name)
  BY DEF Grammatical, HashAt
<1>3. name[r.marker] = IF r.method = 1 THEN "compressed-blobs" ELSE "blobs"
  BY DEF Grammatical
<1> QED
  BY <1>1, <1>2, <1>3 DEF Markers

\* A name that is meant one way is read that way.
LEMMA IntendedIsRead ==
    ASSUME name \in Seq(Segments), NEW r \in Reading, Intended(r)
    PROVE  Parses(name) /\ Parse(name) = Meaning(r)
<1> DEFINE start == r.marker + r.method
<1>1. Grammatical(r)
  BY DEF Intended
<1>2. /\ Len(name) \in Nat
      /\ r.marker \in 1..Len(name) /\ r.upload \in {0, 2}
      /\ r.method \in 0..1 /\ r.function \in 0..1
      /\ HashAt(r) = r.marker + r.method + r.function + 1
      /\ HashAt(r) < Len(name)
      /\ r.method = 1 <=> name[r.marker] = "compressed-blobs"
      /\ name[r.marker] \in Markers
  BY <1>1, ReadingPositions
<1>3. MarkerIndex(name) = r.marker /\ FirstMarker(name, MarkerIndex(name))
  <2>1. FirstMarker(name, r.marker)
    BY <1>2 DEF Intended, FirstMarker
  <2> QED
    BY <2>1, MarkerFound
<1>4. IsCompressed(name) <=> r.method = 1
  BY <1>2, <1>3 DEF IsCompressed
<1>5. start = r.marker + (IF IsCompressed(name) THEN 1 ELSE 0) /\ start < Len(name)
  BY <1>2, <1>4
<1>6. /\ Len(Suffix(name)) = Len(name) - r.marker
      /\ r.marker < Len(name) => Suffix(name)[1] = name[r.marker + 1]
      /\ Len(DigestParts(name)) = Len(name) - start
      /\ \A i \in 1..(Len(name) - start) : DigestParts(name)[i] = name[start + i]
  <2>1. IsCompressed(name) => MarkerIndex(name) < Len(name)
    BY <1>2, <1>3, <1>4
  <2> QED
    BY <1>3, <1>5, <2>1, SuffixParts
<1> HIDE DEF start
<1>7. start \in Nat /\ HashAt(r) = start + r.function + 1
  BY <1>2 DEF start
<1>8. NamesFunction(name) <=> r.function = 1
  <2>1. CASE r.function = 1
    <3>1. Len(name) - start >= 3 /\ 1 \in 1..(Len(name) - start)
      BY <1>2, <1>7, <2>1
    <3>2. Len(DigestParts(name)) >= 3 /\ DigestParts(name)[1] = name[start + 1]
      BY <1>6, <3>1
    <3>3. HashAt(r) - 1 = start + 1
      BY <1>7, <2>1
    <3> QED
      BY <1>1, <2>1, <3>2, <3>3 DEF Grammatical, NamesFunction
  <2>2. CASE r.function = 0
    <3>1. DigestParts(name)[1] = name[start + 1] /\ HashAt(r) = start + 1
      BY <1>2, <1>6, <1>7, <2>2
    <3> QED
      BY <2>2, <3>1 DEF Intended, NamesFunction
  <2> QED
    BY <1>2, <2>1, <2>2
<1>9. /\ HashIndex(name) = r.function + 1
      /\ HashPart(name) = name[HashAt(r)]
      /\ SizePart(name) = Decimal(name[HashAt(r) + 1])
      /\ Len(DigestParts(name)) >= 2
  <2>1. HashIndex(name) = r.function + 1
    BY <1>2, <1>8 DEF HashIndex
  <2>2. /\ r.function + 1 \in 1..(Len(name) - start)
        /\ r.function + 2 \in 1..(Len(name) - start)
        /\ start + (r.function + 1) = HashAt(r)
        /\ start + (r.function + 2) = HashAt(r) + 1
        /\ HashIndex(name) + 1 = r.function + 2
        /\ Len(name) - start >= 2
    BY <1>2, <1>7, <2>1
  <2> QED
    BY <1>6, <2>1, <2>2 DEF HashPart, SizePart
<1>10. HasUploadId(name) <=> r.upload = 2
  <2>1. HasUploadId(name) <=> EndsInUpload(SubSeq(name, 1, r.marker - 1))
    BY <1>3, PrefixParts
  <2>2. CASE r.upload = 2
    BY <1>1, <2>1, <2>2 DEF Grammatical
  <2>3. CASE r.upload = 0
    <3>1. InstancePart(r) = SubSeq(name, 1, r.marker - 1)
      BY <1>2, <2>3 DEF InstancePart
    <3> QED
      BY <2>1, <2>3, <3>1 DEF Intended
  <2> QED
    BY <1>2, <2>2, <2>3
<1>11. InstanceOf(name) = Joined(InstancePart(r))
  <2>1. r.upload = IF HasUploadId(name) THEN 2 ELSE 0
    BY <1>2, <1>10
  <2>2. InstanceOf(name) = Joined(SubSeq(name, 1, r.marker - r.upload - 1))
    BY <1>3, <2>1, PrefixParts
  <2> QED
    BY <2>2 DEF InstancePart
<1>12. r.method = 1 => /\ Suffix(name) # << >>
                       /\ Suffix(name)[1] = name[r.marker + 1]
                       /\ name[r.marker + 1] # ""
  <2>1. r.method = 1 => Len(Suffix(name)) # 0 /\ r.marker < Len(name)
    BY <1>2, <1>6
  <2> QED
    BY <1>1, <1>6, <2>1 DEF Grammatical
<1>13. Parses(name)
  <2>1. MarkerIndex(name) # 0
    BY <1>2, <1>3
  <2>2. IsCompressed(name) => HasMethod(name)
    BY <1>4, <1>12 DEF HasMethod
  <2>3. HashPart(name) # "" /\ SizePart(name) \in Nat
    BY <1>1, <1>9 DEF Grammatical
  <2>4. \A n \in Nat : n # NotANumber /\ n >= 0
    BY NotANumberAssumption
  <2> QED
    BY <1>9, <2>1, <2>2, <2>3, <2>4 DEF Parses
<1>14. Parse(name) = Meaning(r)
  <2>1. HasUploadId(name) = (r.upload = 2)
    BY <1>10 DEF HasUploadId
  <2>2. IsCompressed(name) = (r.method = 1)
    BY <1>4 DEF IsCompressed
  <2> QED
    BY <1>9, <1>11, <1>12, <2>1, <2>2 DEF Parse, Meaning
<1> QED
  BY <1>13, <1>14

\* A name that is read has the grammatical reading the parser has found.
LEMMA ReadIsGrammatical ==
    ASSUME name \in Seq(Segments), Parses(name)
    PROVE  \E r \in Reading : Grammatical(r) /\ Parse(name) = Meaning(r)
<1> DEFINE m == MarkerIndex(name)
           method == IF IsCompressed(name) THEN 1 ELSE 0
           function == IF NamesFunction(name) THEN 1 ELSE 0
           upload == IF HasUploadId(name) THEN 2 ELSE 0
           start == m + method
           hash == start + function + 1
           r == [marker |-> m, upload |-> upload, method |-> method, function |-> function]
<1>1. /\ FirstMarker(name, m)
      /\ m \in 1..Len(name) /\ Len(name) \in Nat /\ name[m] \in Markers
  <2>1. MarkerIndex(name) # 0
    BY DEF Parses
  <2>2. FirstMarker(name, m)
    BY <2>1, MarkerFound
  <2> QED
    BY <2>2 DEF FirstMarker
<1>2. r \in Reading /\ HashAt(r) = hash /\ InstancePart(r) = SubSeq(name, 1, m - upload - 1)
  BY <1>1 DEF Reading, HashAt, InstancePart
<1>3. IsCompressed(name) => m < Len(name)
  <2>1. IsCompressed(name) => Suffix(name) # << >>
    BY DEF Parses, HasMethod
  <2>2. Suffix(name) = SubSeq(name, m + 1, Len(name))
    BY DEF Suffix
  <2> HIDE DEF m
  <2>3. ~(m < Len(name)) => Suffix(name) = << >>
    BY <1>1, <2>2
  <2> QED
    BY <2>1, <2>3
<1>4. /\ m < Len(name) => Suffix(name)[1] = name[m + 1]
      /\ Len(DigestParts(name)) = Len(name) - start
      /\ \A i \in 1..(Len(name) - start) : DigestParts(name)[i] = name[start + i]
  BY <1>1, <1>3, SuffixParts
<1>5. name[m] = IF method = 1 THEN "compressed-blobs" ELSE "blobs"
  BY <1>1 DEF IsCompressed, Markers
<1> HIDE DEF m
<1>6. /\ method \in 0..1 /\ function \in 0..1 /\ start \in Nat
      /\ HashIndex(name) = function + 1
  BY <1>1 DEF HashIndex
<1>7. function + 2 <= Len(name) - start
  <2>1. Len(DigestParts(name)) >= 2
    BY DEF Parses
  <2>2. function = 1 => Len(DigestParts(name)) >= 3
    BY DEF NamesFunction
  <2> HIDE DEF start
  <2> QED
    BY <1>4, <1>6, <2>1, <2>2
<1>8. /\ HashPart(name) = name[hash]
      /\ SizePart(name) = Decimal(name[hash + 1])
      /\ function = 1 => name[hash - 1] = "sha256"
  <2> HIDE DEF start, function
  <2>1. /\ 1 \in 1..(Len(name) - start)
        /\ function + 1 \in 1..(Len(name) - start)
        /\ function + 2 \in 1..(Len(name) - start)
        /\ start + (function + 1) = hash
        /\ start + (function + 2) = hash + 1
        /\ HashIndex(name) + 1 = function + 2
        /\ function = 1 => hash - 1 = start + 1
    BY <1>1, <1>6, <1>7
  <2>2. DigestParts(name)[1] = name[start + 1]
    BY <1>4, <2>1
  <2>3. function = 1 => DigestParts(name)[1] = "sha256"
    BY DEF function, NamesFunction
  <2> QED
    BY <1>4, <1>6, <2>1, <2>2, <2>3 DEF HashPart, SizePart
<1>9. SizePart(name) \in Nat
  <2>1. hash + 1 \in 1..Len(name)
    BY <1>1, <1>6, <1>7
  <2>2. name[hash + 1] \in Segments
    BY <2>1
  <2>3. SizePart(name) # NotANumber /\ SizePart(name) >= 0
    BY DEF Parses
  <2>4. SizePart(name) \in Int
    BY <1>8, <2>2, <2>3, SegmentsAssumption
  <2> QED
    BY <2>3, <2>4
<1>10. hash < Len(name)
  BY <1>1, <1>6, <1>7
<1>11. method = 1 => Suffix(name)[1] = name[m + 1] /\ name[m + 1] # ""
  <2>1. method = 1 => IsCompressed(name)
    OBVIOUS
  <2>2. IsCompressed(name) => Suffix(name)[1] # ""
    BY DEF Parses, HasMethod
  <2> HIDE DEF method
  <2> QED
    BY <1>3, <1>4, <2>1, <2>2
<1>12. /\ upload = 2 => EndsInUpload(SubSeq(name, 1, m - 1))
       /\ InstanceOf(name) = Joined(SubSeq(name, 1, m - upload - 1))
  BY <1>1, PrefixParts DEF m
<1>13. HashPart(name) # ""
  BY DEF Parses
<1> HIDE DEF method, function, upload, hash, start
<1>14. Grammatical(r)
  BY <1>2, <1>5, <1>8, <1>9, <1>10, <1>11, <1>12, <1>13 DEF Grammatical
<1>15. Parse(name) = Meaning(r)
  <2>1. HasUploadId(name) = (upload = 2)
    <3>1. HasUploadId(name) \in BOOLEAN
      BY DEF HasUploadId
    <3> QED
      BY <3>1 DEF upload
  <2>2. IsCompressed(name) = (method = 1)
    BY DEF method, IsCompressed
  <2>3. /\ r.marker = m /\ r.upload = upload /\ r.method = method
        /\ InstancePart(r) = SubSeq(name, 1, m - upload - 1) /\ HashAt(r) = hash
    BY <1>2
  <2> HIDE DEF r
  <2> QED
    BY <1>8, <1>11, <1>12, <2>1, <2>2, <2>3 DEF Parse, Meaning
<1> HIDE DEF r
<1> QED
  BY <1>2, <1>14, <1>15

-----------------------------------------------------------------------------

\* A name is a sequence of segments, of whatever length.
LEMMA NamesAreSequences == Spec => [](name \in Seq(Segments))
<1>1. Init => name \in Seq(Segments)
  BY DEF Init
<1>2. name \in Seq(Segments) /\ [Next]_name => (name \in Seq(Segments))'
  BY DEF Next
<1> QED
  BY <1>1, <1>2, PTL DEF Spec

\* Every name, however long and of whatever segments, that is meant one way is
\* accepted by parse_bytestream_resource_name and understood that way.
THEOREM NamesUnderstood == Spec => []UnderstandsNames
<1>1. name \in Seq(Segments) => UnderstandsNames
  BY IntendedIsRead DEF UnderstandsNames
<1> QED
  BY <1>1, NamesAreSequences, PTL

\* Whatever it accepts is a name of the grammar, read by one of its readings.
THEOREM OnlyNamesAccepted == Spec => []AcceptsOnlyNames
<1>1. name \in Seq(Segments) => AcceptsOnlyNames
  BY ReadIsGrammatical DEF AcceptsOnlyNames
<1> QED
  BY <1>1, NamesAreSequences, PTL

=============================================================================
