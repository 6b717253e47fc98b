------------------------------ MODULE MCNames ------------------------------
(* An instance of ResourceNameGrammar for TLC: every word the parser knows, *)
(* no word, and one that can be a size, a hash, an id or an instance.       *)
EXTENDS ResourceNameGrammar

MCSegments == {"", "uploads", "blobs", "compressed-blobs", "sha256", "1"}
MCDecimal(part) == IF part = "1" THEN 1 ELSE NotANumber

=============================================================================
