------------------------- MODULE ReferenceBoundary -------------------------
(***************************************************************************)
(* The identifiers of a prompt's objects are replaced by short handles     *)
(* before a model call and put back in the list of references of its       *)
(* output, by                                                              *)
(*   "reference"  ReferenceHarness.run of src/.../reference_harness.py,    *)
(*   "selection"  encode_selection_ids and decode_selection_ids of         *)
(*                src/.../structured_harness.py.                           *)
(* A prompt is its sequence of identifiers and where each also occurs: in  *)
(* the text behind the data, or only elsewhere (before the data, in other  *)
(* values of it, in other messages).  The first boundary looks everywhere, *)
(* if its caller lists all that is outside the data as protected; the      *)
(* second looks behind the data.  An output is its list of references.     *)
(***************************************************************************)
EXTENDS Integers, Sequences, SequencesExt

CONSTANTS
  Id, Width,        \* identifiers, and the length of each
  Handle,           \* what an object's identifier is replaced by, by its place
  MinSaving,        \* min_saving_chars
  MinCandidates,    \* min_candidates
  MaxObjects        \* bound: the objects of a prompt, and references of an output

VARIABLES
  boundary,              \* which of the two
  readOnly, calibrated,  \* of the contract, and of its calibration
  ids, cited,            \* the prompt
  bpc,                   \* "start", "asking" and "checking", again or not, "returned", "raised"
  enabled,               \* the prompt was encoded
  meant,                 \* the objects a faithful answer refers to, or <<>> for any other
  output, calls

refVars == <<boundary, readOnly, calibrated, ids, cited, bpc, enabled, meant, output, calls>>

Lists(S) == SeqOf(S, MaxObjects)
Places == {"nowhere", "behind", "elsewhere"}

Init ==
  /\ boundary \in {"reference", "selection"}
  /\ readOnly \in BOOLEAN /\ calibrated \in BOOLEAN
  /\ ids \in Lists(Id) /\ cited \in [Range(ids) -> Places]
  /\ bpc = "start" /\ enabled = FALSE /\ meant = <<>> /\ output = <<>> /\ calls = 0

\* Handles are one character for the few objects of a bounded prompt.
Saving == FoldLeft(LAMBDA sum, x : sum + Width[x] - 1, 0, ids)

\* Mutant of Compiles: nobody looks whether an identifier occurs elsewhere.
CompilesCited == readOnly /\ ids # <<>> /\ IsInjective(ids) /\ Saving >= MinSaving

\* compile_references(): every other outcome is a bypass.
Compiles ==
  /\ readOnly
  /\ ids # <<>> /\ IsInjective(ids)
  /\ \A x \in Range(ids) : cited[x] = "nowhere"
  /\ Saving >= MinSaving

\* encode_selection_ids(): the two keep the text when they do not encode it.
EncodesSelection ==
  /\ ids # <<>> /\ Len(ids) >= MinCandidates /\ IsInjective(ids)
  /\ \A x \in Range(ids) : cited[x] # "behind"

\* run() up to its first call.
Encode ==
  /\ bpc = "start" /\ bpc' = "asking"
  /\ enabled' = IF boundary = "reference" THEN calibrated /\ Compiles ELSE EncodesSelection
  /\ UNCHANGED <<boundary, readOnly, calibrated, ids, cited, meant, output, calls>>

\* What an answer may call an object: as the prompt does, in the data or elsewhere.
Names(i) ==
  IF bpc = "asking" /\ enabled
  THEN {Handle[i]} \cup {x \in {ids[i]} : cited[x] # "nowhere"}
  ELSE {ids[i]}

\* The model answers with names of the objects it means, or with anything, or the
\* call fails, which ends run().
Answer ==
  /\ bpc \in {"asking", "asking again"}
  /\ calls' = calls + 1
  /\ LET next == IF bpc = "asking" THEN "checking" ELSE "checking again" IN
       \/ \E objects \in Lists(DOMAIN ids) :
            /\ meant' = objects /\ bpc' = next
            /\ output' \in {list \in [DOMAIN objects -> UNION {Names(i) : i \in DOMAIN ids}] :
                             \A k \in DOMAIN objects : list[k] \in Names(objects[k])}
       \/ output' \in Lists(Id) /\ meant' = <<>> /\ bpc' = next
       \/ bpc' = "raised" /\ UNCHANGED <<output, meant>>
  /\ UNCHANGED <<boundary, readOnly, calibrated, ids, cited, enabled>>

\* restore(): each handle becomes the identifier it stands for.
Restored(list) ==
  [i \in DOMAIN list |-> ids[CHOOSE j \in DOMAIN ids : Handle[j] = list[i]]]

\* The first boundary makes a call that was transformed once more, as it was.
Retries == boundary = "reference" /\ bpc = "checking" /\ enabled

Known(list) == Range(list) \subseteq {Handle[j] : j \in DOMAIN ids}

\* The output is restored, and the first boundary has the caller validate it, who
\* knows the prompt's identifiers.  The second leaves that to its caller.
Check ==
  /\ bpc \in {"checking", "checking again"}
  /\ LET restores == bpc = "checking" /\ enabled
         restored == IF restores /\ Known(output) THEN Restored(output) ELSE output
         validates == boundary = "reference" IN
       \/ /\ restores => Known(output)
          /\ validates => Range(restored) \subseteq Range(ids)
          /\ bpc' = "returned" /\ output' = restored
       \/ /\ validates \/ (restores /\ ~Known(output))
          /\ bpc' = IF Retries THEN "asking again" ELSE "raised"
          /\ UNCHANGED output
  /\ UNCHANGED <<boundary, readOnly, calibrated, ids, cited, enabled, meant, calls>>

Next == Encode \/ Answer \/ Check

-----------------------------------------------------------------------------

TypeOK ==
  /\ boundary \in {"reference", "selection"}
  /\ readOnly \in BOOLEAN /\ calibrated \in BOOLEAN /\ enabled \in BOOLEAN
  /\ ids \in Lists(Id) /\ cited \in [Range(ids) -> Places] /\ calls \in 0..2
  /\ bpc \in {"start", "asking", "checking", "asking again", "checking again", "returned", "raised"}
  /\ meant \in Lists(DOMAIN ids)

\* The second boundary rewrites a prompt that cites an object by its identifier
\* before the data or in another message, and the identifier is itself a handle.
Confusable ==
  /\ boundary = "selection"
  /\ \E x \in Range(ids) : cited[x] = "elsewhere" /\ x \in {Handle[j] : j \in DOMAIN ids}

\* The application sees its own identifiers, the ones of the objects that the
\* model meant, whether it called them as the data does or as another part of
\* the prompt that cites them; and only a read is sent twice, and only when what
\* was sent first was not the prompt.  It excepts what the code does: the second
\* boundary takes an identifier that is confusable for a handle.
ReferencesRestored ==
  /\ bpc = "returned" =>
       /\ boundary = "reference" \/ enabled => Range(output) \subseteq Range(ids)
       /\ meant # <<>> /\ ~Confusable => output = [i \in DOMAIN meant |-> ids[meant[i]]]
  /\ calls = 2 => boundary = "reference" /\ readOnly /\ enabled
=============================================================================
