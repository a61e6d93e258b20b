----------------------------- MODULE NgramDraft -----------------------------
(***************************************************************************)
(* search_spec_plugin.py of src/integrations: the draft tokens that follow *)
(* the latest repeat of the last n-gram of a request, or the n-gram as a   *)
(* datastore of earlier requests has it.  A request grows by tokens it     *)
(* accepts, and a draft is made for every prefix.                          *)
(***************************************************************************)
EXTENDS Integers, Sequences, SequencesExt, FiniteSetsExt

CONSTANTS
  Token, MinN, MaxN, K, MaxModelLen,
  Stages,       \* the datastore: for each stage its fingerprint and its sequences
  FpWindow      \* how far into a request a fingerprint is looked for

VARIABLES spec, row, proposed

\* The KMP scan of _latest() over the reversed tokens, whose failure table is cut
\* to MaxN entries: the longest repeat of the last n-gram, and where it is found
\* first.  t is the reversed sequence, from 0; s holds the variables of the loop.
Entry == [i |-> 1, prev |-> 0, lps |-> [j \in 0..MaxN - 1 |-> 0], longest |-> 0, position |-> 0]
Pass(t, s) ==
  IF s.i >= Len(t) THEN s
  ELSE IF t[s.prev + 1] = t[s.i + 1] THEN
    LET prev == s.prev + 1
        lps == IF s.i < MaxN THEN [s.lps EXCEPT ![s.i] = prev] ELSE s.lps IN
      [i |-> s.i + 1, lps |-> lps,
       prev |-> IF prev = MaxN THEN lps[MaxN - 1] ELSE prev,
       longest |-> IF prev > s.longest THEN prev ELSE s.longest,
       position |-> IF prev > s.longest THEN s.i ELSE s.position]
  ELSE IF s.prev # 0 THEN [s EXCEPT !.prev = s.lps[s.prev - 1]]
  ELSE [s EXCEPT !.i = s.i + 1]

\* The variables after n passes.  Each pass takes i on or prev back, which i has
\* taken on before, so that the loop ends within two passes per token.
Scan(t) == LET scan[n \in Nat] == IF n = 0 THEN Entry ELSE Pass(t, scan[n - 1]) IN scan
ScanOf(tokens) == Scan(Reverse(tokens))[2 * Len(tokens)]

\* _latest(): at most K tokens from behind the repeat.
Latest(tokens) ==
  LET s == ScanOf(tokens)
      k == Min({K, MaxModelLen - Len(tokens)})
      start == Len(tokens) - 1 - s.position + s.longest IN
    IF Len(tokens) < MinN \/ k <= 0 \/ s.longest < MinN THEN <<>>
    ELSE SubSeq(tokens, start + 1, Min({start + k, Len(tokens)}))

\* _longest_ctx_match().
LongestCtxMatch(tokens) ==
  IF Len(tokens) < MinN \/ ScanOf(tokens).longest < MinN THEN 0 ELSE ScanOf(tokens).longest

\* The last n tokens, and the places of a sequence where a gram is.
LastGram(tokens, n) == SubSeq(tokens, Len(tokens) - n + 1, Len(tokens))
Places(gram, seq) ==
  {p \in 1..(Len(seq) - Len(gram) + 1) : SubSeq(seq, p, p + Len(gram) - 1) = gram}

\* The index of a stage holds the first place of a gram in the first sequence
\* that has it: what follows it there, for a gram that is indexed.
Indexed(stage, gram) == \E i \in DOMAIN stage.seqs : Places(gram, stage.seqs[i]) # {}
Follows(stage, gram, k) ==
  LET src == Min({i \in DOMAIN stage.seqs : Places(gram, stage.seqs[i]) # {}})
      seq == stage.seqs[src]
      next == Min(Places(gram, seq)) + Len(gram) IN
    SubSeq(seq, next, Min({next + k - 1, Len(seq)}))

\* find_stage(): the first stage whose fingerprint the head of the request has.
FindStage(tokens) ==
  LET head == SubSeq(tokens, 1, Min({Len(tokens), FpWindow}))
      hits == {i \in DOMAIN Stages : Places(Stages[i].fingerprint, head) # {}} IN
    IF hits = {} THEN 0 ELSE Min(hits)

\* Mutant of Propose: a datastore match of the same length replaces the draft.
ProposeOnTies(tokens, mode) ==
  LET ctx == Latest(tokens)
      k == Min({K, MaxModelLen - Len(tokens)})
      stage == FindStage(tokens)
      floor == IF ctx = <<>> THEN MinN - 1 ELSE LongestCtxMatch(tokens) - 1
      sizes == IF stage = 0 THEN {} ELSE
        {n \in (floor + 1)..Min({MaxN, Len(tokens)}) :
           Indexed(Stages[stage], LastGram(tokens, n))} IN
    IF (ctx # <<>> /\ mode = "ctx_then_ds") \/ k <= 0 \/ sizes = {} THEN ctx
    ELSE Follows(Stages[stage], LastGram(tokens, Max(sizes)), k)

\* batch_propose() for one request: the draft of the prompt, unless the stage of
\* the request knows a longer n-gram with something after it.
Propose(tokens, mode) ==
  LET ctx == Latest(tokens)
      k == Min({K, MaxModelLen - Len(tokens)})
      stage == FindStage(tokens)
      floor == IF ctx = <<>> THEN MinN - 1 ELSE Max({MinN - 1, LongestCtxMatch(tokens)})
      sizes == IF stage = 0 THEN {} ELSE
        {n \in (floor + 1)..Min({MaxN, Len(tokens)}) :
           Indexed(Stages[stage], LastGram(tokens, n))}
      found == IF sizes = {} THEN <<>>
               ELSE Follows(Stages[stage], LastGram(tokens, Max(sizes)), k) IN
    IF (ctx # <<>> /\ mode = "ctx_then_ds") \/ k <= 0 \/ found = <<>> THEN ctx ELSE found

Init == spec \in {"ctx_then_ds", "longest_any"} /\ row = <<>> /\ proposed = <<>>

\* The target model emits a token, and the next draft is asked for.
Decode(token) ==
  /\ Len(row) < MaxModelLen
  /\ row' = Append(row, token)
  /\ proposed' = Propose(row', spec)
  /\ UNCHANGED spec

Next == \E token \in Token : Decode(token)

-----------------------------------------------------------------------------

\* The request stays in the model's context.
TypeOK == spec \in {"ctx_then_ds", "longest_any"} /\ row \in Seq(Token) /\ Len(row) <= MaxModelLen

\* The n-grams, of MinN to MaxN tokens, that end the request and occur before.
Repeats == {n \in MinN..Min({MaxN, Len(row) - 1}) :
              Places(LastGram(row, n), SubSeq(row, 1, Len(row) - 1)) # {}}

\* What follows the latest earlier place of the longest repeated n-gram.
Continuation ==
  LET n == Max(Repeats)
      next == Max(Places(LastGram(row, n), SubSeq(row, 1, Len(row) - 1))) + n IN
    SubSeq(row, next, Min({next + Min({K, MaxModelLen - Len(row)}) - 1, Len(row)}))

\* The scan with its cut failure table finds the longest repeat and its latest
\* place; "only a strictly longer datastore match may override the prompt draft;
\* ties keep the prompt draft" (the comment in batch_propose); and a draft is of
\* tokens that still fit behind the request.
DraftFollowsLongest ==
  /\ LongestCtxMatch(row) = IF Repeats = {} THEN 0 ELSE Max(Repeats)
  /\ Latest(row) = IF Repeats = {} \/ Len(row) = MaxModelLen THEN <<>> ELSE Continuation
  /\ Repeats # {} /\ proposed # Latest(row) =>
       /\ spec = "longest_any"
       /\ \E n \in (Max(Repeats) + 1)..MaxN :
            n <= Len(row) /\ Indexed(Stages[FindStage(row)], LastGram(row, n))
  /\ proposed \in Seq(Token) /\ Len(proposed) <= K /\ Len(row) + Len(proposed) <= MaxModelLen
=============================================================================
