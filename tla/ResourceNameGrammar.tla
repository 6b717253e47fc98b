------------------------ MODULE ResourceNameGrammar ------------------------
(***************************************************************************)
(* The resource names of ByteStream as a grammar, the way a client writes  *)
(* them, and the parser of ResourceName compared with it on all names up   *)
(* to a length.  The grammar reads a name as a whole; the parser decides   *)
(* segment by segment and never goes back.                                 *)
(***************************************************************************)
EXTENDS ResourceName

CONSTANTS
    Segments,       \* what stands between the slashes of a name
    MaxSegments     \* bound on the number of segments

ASSUME SegmentsAssumption ==
    MaxSegments \in Nat \ {0} /\ \A s \in Segments : Decimal(s) \in Int \cup {NotANumber}

VARIABLE name       \* a string that was split at its slashes

Init == \E s \in Segments : name = <<s>>

Next ==
    /\ Len(name) < MaxSegments
    /\ \E s \in Segments : name' = Append(name, s)

Spec == Init /\ [][Next]_name

-----------------------------------------------------------------------------
(***************************************************************************)
(* A reading says where the parts of a name are: the position of the       *)
(* marker, and how many segments an upload id takes before it and a        *)
(* compression method and a digest function after it.                      *)
(***************************************************************************)
Reading == [marker : 1..Len(name), upload : {0, 2}, method : 0..1, function : 0..1]

InstancePart(r) == SubSeq(name, 1, r.marker - r.upload - 1)
HashAt(r) == r.marker + r.method + r.function + 1

EndsInUpload(parts) ==
    /\ Len(parts) >= 2
    /\ parts[Len(parts) - 1] = "uploads"
    /\ parts[Len(parts)] # ""

Grammatical(r) ==
    /\ name[r.marker] = IF r.method = 1 THEN "compressed-blobs" ELSE "blobs"
    /\ r.upload = 2 => EndsInUpload(SubSeq(name, 1, r.marker - 1))
    /\ HashAt(r) < Len(name)
    /\ r.method = 1 => name[r.marker + 1] # ""
    /\ r.function = 1 => name[HashAt(r) - 1] = "sha256"
    /\ name[HashAt(r)] # ""
    /\ Decimal(name[HashAt(r) + 1]) \in Nat

\* No client names an instance by these words or a hash by its function.
Intended(r) ==
    /\ Grammatical(r)
    /\ \A i \in 1..r.marker - 1 : name[i] \notin Markers
    /\ ~EndsInUpload(InstancePart(r))
    /\ name[HashAt(r)] # "sha256"

Meaning(r) ==
    [instance |-> Joined(InstancePart(r)),
     upload |-> r.upload = 2,
     compressed |-> r.method = 1,
     method |-> IF r.method = 1 THEN name[r.marker + 1] ELSE "identity",
     hash |-> name[HashAt(r)],
     size |-> Decimal(name[HashAt(r) + 1])]

-----------------------------------------------------------------------------
(* Properties *)

(***************************************************************************)
(* A name is understood as it was meant, with or without an instance, an   *)
(* upload id, a digest function or segments after the size, whatever words *)
(* occur in the places where they are data.                                *)
(***************************************************************************)
UnderstandsNames ==
    \A r \in Reading : Intended(r) => Parses(name) /\ Parse(name) = Meaning(r)

\* What is accepted is a name of the grammar, and is read as one.
AcceptsOnlyNames ==
    Parses(name) => \E r \in Reading : Grammatical(r) /\ Parse(name) = Meaning(r)

=============================================================================
