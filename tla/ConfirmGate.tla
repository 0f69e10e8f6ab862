---------------------------- MODULE ConfirmGate ----------------------------
(***************************************************************************)
(* The classifier of the user's words (tx/flow.py, ConfirmGate): the only  *)
(* source of the decision TxFlow.confirm accepts.  The utterance grows one *)
(* word at a time, so that the properties can speak of what a user says on *)
(* top of what was already said.                                           *)
(*                                                                         *)
(* A word is a token after lowercasing and stripping of edge punctuation;  *)
(* Dots is a word that was punctuation only.  Each class of words the      *)
(* whitelists tell apart has its representatives in Words.                 *)
(***************************************************************************)
EXTENDS Naturals, Sequences

CONSTANTS
  Dots,    \* a word of punctuation only
  MaxWords \* bound on the length of an utterance

ASSUME GateAssumption == MaxWords \in Nat

VARIABLE utterance

ConfirmTokens == {"yes", "sign"}
DenyTokens == {"no", "don't"}
FillerTokens == {"please", "it"}
UnknownTokens == {"do", "thanks", "ok"}
Words == ConfirmTokens \cup DenyTokens \cup FillerTokens \cup UnknownTokens \cup {Dots}

\* The entries of several words; those of one word are the tokens above.
ConfirmPhrases == {<<"yes", "please">>, <<"do", "it">>} \cup {<<w>> : w \in ConfirmTokens}
DenyPhrases == {<<"no", "thanks">>} \cup {<<w>> : w \in DenyTokens}

Tokenize(u) == SelectSeq(u, LAMBDA w : w # Dots)

TokensOf(tokens) == {tokens[k] : k \in DOMAIN tokens}

\* The whitelist matches the whole utterance, never a part of it.
EndsIn(tokens, phrases) ==
  \E p \in phrases : Len(p) <= Len(tokens)
                  /\ SubSeq(tokens, Len(tokens) - Len(p) + 1, Len(tokens)) = p
IsPhrase(tokens, phrases) == tokens \in phrases

\* One unknown word makes the utterance no decision at all.
SkipsUnknown(tokens) == FALSE
HasUnknown(tokens) == TokensOf(tokens) \cap UnknownTokens # {}

\* What the decision words of an utterance amount to.
FirstWordDecides(tokens) ==
  LET says == SelectSeq(tokens, LAMBDA w : w \in ConfirmTokens \cup DenyTokens) IN
    IF says = <<>> THEN "not_a_decision"
    ELSE IF Head(says) \in ConfirmTokens THEN "confirm" ELSE "deny"
Verdict(tokens) ==
  LET confirms == TokensOf(tokens) \cap ConfirmTokens # {}
      denies == TokensOf(tokens) \cap DenyTokens # {} IN
    CASE confirms /\ denies -> "ambiguous"
      [] confirms /\ ~denies -> "confirm"
      [] ~confirms /\ denies -> "deny"
      [] OTHER -> "not_a_decision"

Classify(u) ==
  LET tokens == Tokenize(u) IN
    CASE IsPhrase(tokens, ConfirmPhrases) -> "confirm"
      [] IsPhrase(tokens, DenyPhrases) -> "deny"
      [] OTHER -> IF HasUnknown(tokens) THEN "not_a_decision" ELSE Verdict(tokens)

Init == utterance = <<>>

Say(w) ==
  /\ Len(utterance) < MaxWords
  /\ utterance' = Append(utterance, w)

NewTurn == utterance # <<>> /\ utterance' = <<>>

Next == (\E w \in Words : Say(w)) \/ NewTurn

Spec == Init /\ [][Next]_utterance
-----------------------------------------------------------------------------

\* A yes that has a no anywhere in it is never taken for a yes, although phrases
\* are tried before the words are.
NegationNeverConfirms ==
  Classify(utterance) = "confirm" => TokensOf(utterance) \cap DenyTokens = {}

Backwards == [k \in DOMAIN utterance |-> utterance[Len(utterance) - k + 1]]

\* The order of the words decides nothing but whether a phrase was said: the
\* utterance read backwards is never the opposite decision.
OrderNeverContradicts ==
  LET d == Classify(utterance)
      b == Classify(Backwards) IN
    d \in {"confirm", "deny", "ambiguous"} => b \in {d, "not_a_decision"}

\* A decision rests on evidence: a word outside the whitelists is tolerated
\* only inside a whitelisted phrase said alone, and fillers decide nothing.
FailsClosed ==
  LET tokens == Tokenize(utterance) IN
    Classify(utterance) # "not_a_decision" =>
      \/ tokens \in ConfirmPhrases \cup DenyPhrases
      \/ /\ TokensOf(tokens) \cap UnknownTokens = {}
         /\ ~(TokensOf(tokens) \subseteq FillerTokens)
=============================================================================
