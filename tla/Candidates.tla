----------------------------- MODULE Candidates -----------------------------
(***************************************************************************)
(* Which Assistants a message is about (chat/assistants/{proposal,         *)
(* inventory}.rs, chat/catalog/local.rs): the offers of a Space, the       *)
(* inventories Team answers, the scores a text gives an Assistant and the  *)
(* bounded directories Team's decisions choose from.                       *)
(*                                                                         *)
(* A text is a sequence of written words; FoldOf is the case, accent and   *)
(* punctuation folding of one word.  Scripts written without spaces, whose *)
(* words are pairs of characters, are left out.  Assistants are numbered   *)
(* in the order of their ids.                                              *)
(***************************************************************************)
EXTENDS Selections, FiniteSets, SequencesExt, FiniteSetsExt

CONSTANTS Assistant,      \* the Assistants, numbered in the order of their ids
          FoldOf,         \* written word -> folded word, Nothing for punctuation
          Nothing,
          StopWord,       \* STOP_WORDS and words of one character
          About,          \* Assistant -> its id, name, summary, integrations and actions as texts
          Affirmative,    \* UNINSTALL_AFFIRMATIVE
          Negative,       \* UNINSTALL_NEGATIVE
          MaxCandidates   \* MAX_CAPABILITY_CANDIDATES and MAX_INTENT_ROUTE_CANDIDATES, both 8

(* Assistants are finitely many numbers, and a directory has room for one.                 *)
CandidatesNumbered == MaxCandidates \in Nat \ {0} /\ Assistant \subseteq Nat /\ IsFiniteSet(Assistant)

IsText(text) == text \in Seq({text[i] : i \in DOMAIN text})

-----------------------------------------------------------------------------
(* Words and phrases.                                                                      *)

(* fold, search_text: the folded words, what is no letter or digit dropped.                *)
SearchText(text) == Select([i \in DOMAIN text |-> FoldOf[text[i]]], LAMBDA w : w # Nothing)

(* word_tokens, tokens: the words that tell something.                                     *)
Tokens(texts) == UNION {Range(SearchText(t)) : t \in texts} \ StopWord

(* contains_phrase: the whole phrase, between word boundaries.                             *)
ContainsPhrase(search, text) ==
  LET phrase == SearchText(text) IN
  phrase # <<>> /\ \E i \in DOMAIN search :
    i + Len(phrase) - 1 <= Len(search) /\ SubSeq(search, i, i + Len(phrase) - 1) = phrase

(* Fields: the texts of an Assistant.                                                      *)
Fields(a) == {About[a].id, About[a].name, About[a].summary} \cup About[a].integrations \cup About[a].actions

(* score_fields, offer_score, capability_score: the strongest of what a text says of it.   *)
Score(text, a) ==
  LET search == SearchText(text)
      Names(texts) == \E t \in texts : ContainsPhrase(search, t)
      overlap == Cardinality(Tokens({text}) \cap Tokens(Fields(a)))
  IN Max({0} \cup (IF Names({About[a].id, About[a].name}) THEN {100} ELSE {})
             \cup (IF Names(About[a].integrations) THEN {90} ELSE {})
             \cup (IF Names(About[a].actions) THEN {70} ELSE {})
             \cup (IF overlap >= 2 THEN {overlap * 20} ELSE {}))

(* identity_score: the name itself, or a query all of whose words are of the name.         *)
IdentityScore(text, id, name) ==
  LET search == SearchText(text)
      identity == Tokens({id, name})
      overlap == Cardinality(Tokens({text}) \cap identity)
  IN IF ContainsPhrase(search, id) \/ ContainsPhrase(search, name) THEN 100
     ELSE IF overlap > 0 /\ Tokens({text}) \subseteq identity THEN 60 + Min({overlap, 4}) * 5 ELSE 0

(* Of a directory, a stands before b.                                                      *)
Before(score, a, b) == score[a] > score[b] \/ (score[a] = score[b] /\ a < b)

(* ranked: strongest first, ties in the order of their ids.                                *)
Ranked(S, score) ==
  [n \in 1..Cardinality(S) |-> CHOOSE a \in S : Cardinality({b \in S : Before(score, b, a)}) = n - 1]

(* Ascending in their ids, which is how a plan has to name them.                           *)
InOrder(S) == Ranked(S, [a \in S |-> 0])

(* A bug: the tie is looked for one place too far. *)
BoundedPoolLater(S, score) ==
  LET r == Ranked(S, score) IN
  IF Len(r) > MaxCandidates + 1 /\ score[r[MaxCandidates]] = score[r[MaxCandidates + 1]] THEN {}
  ELSE Range(SubSeq(r, 1, Min({Len(r), MaxCandidates})))

(* bounded_pool: within the bound; a tie across it yields no pool.                         *)
BoundedPool(S, score) ==
  LET r == Ranked(S, score) IN
  IF Len(r) > MaxCandidates /\ score[r[MaxCandidates]] = score[r[MaxCandidates + 1]] THEN {}
  ELSE Range(SubSeq(r, 1, Min({Len(r), MaxCandidates})))

(* capability_candidates: the installable ones first, the enabled ones in what is left.    *)
CapabilityCandidates(text, offers, installed, enabled) ==
  LET score == [a \in Assistant |-> Score(text, a)]
      pool == IF SearchText(text) = <<>> THEN {} ELSE BoundedPool(offers \ installed, score)
      context == Ranked(enabled, score)
  IN [shortlist |-> pool,
      enabled |-> IF pool = {} THEN {}
                  ELSE Range(SubSeq(context, 1, Min({Len(context), MaxCandidates - Cardinality(pool)})))]

(* install_shortlist.                                                                      *)
InstallShortlist(query, offers) ==
  IF SearchText(query) = <<>> THEN {}
  ELSE BoundedPool(offers, [a \in Assistant |-> Max({IdentityScore(query, About[a].id, About[a].name), Score(query, a)})])

(* uninstall_shortlist: an Assistant the contract refuses goes by its id alone.            *)
UninstallShortlist(query, candidates, refused) ==
  IF SearchText(query) = <<>> THEN {}
  ELSE BoundedPool(candidates, [a \in Assistant |->
         IdentityScore(query, About[a].id, IF a \in refused THEN About[a].id ELSE About[a].name)])

(* confirmation: folded, what is no word dropped at its end only.                          *)
Confirmation(text) ==
  LET kept == {i \in DOMAIN text : FoldOf[text[i]] # Nothing} IN
  IF kept = {} THEN <<>> ELSE [i \in 1..Max(kept) |-> FoldOf[text[i]]]

(* lifecycle::decision, classify: a whole answer, or ambiguous.                            *)
DecisionOf(text, files) ==
  IF files THEN "ambiguous"
  ELSE IF Confirmation(text) \in Affirmative THEN "confirm"
  ELSE IF Confirmation(text) \in Negative THEN "cancel" ELSE "ambiguous"

-----------------------------------------------------------------------------
(* The offers of the Space.  A staged image is [id, image, created, admission].            *)

(* newest: of the labelled images of an identity, by creation time and then image id.      *)
Newest(staged, a) ==
  CHOOSE x \in staged : x.id = a /\ \A y \in staged : y.id = a =>
    y.created < x.created \/ (y.created = x.created /\ y.image <= x.image)

(* primary: the newest image of every identity, offered when Team admits it and none of    *)
(* the identity's images had its labels refused.                                           *)
Primary(staged) ==
  LET unlabeled == {x.id : x \in {y \in staged : y.admission = "labels-invalid"}}
      labeled == {x \in staged : x.admission # "labels-invalid"}
  IN [offerable |-> {x.id : x \in {Newest(labeled, a) : a \in {y.id : y \in labeled}}
                              \cap {y \in staged : y.admission = "admissible"}} \ unlabeled,
      staged |-> {x.id : x \in labeled} \cup unlabeled]

(* planning_catalog: the staged snapshots Team admits, the publications none shadows.      *)
PlanningCatalog(staged, published) ==
  Primary(staged).offerable \cup (published \ Primary(staged).staged)

-----------------------------------------------------------------------------
(* The inventories of a Team, an inventory being [Assistant -> [version, status]] with     *)
(* version 0 for an Assistant that is not installed.                                       *)

(* inventory::installed, installed_inventory: what Team lists, or a fault.                 *)
InstalledIn(inv) == {a \in Assistant : inv[a].version # 0}

RunningIn(inv) == {a \in Assistant : inv[a].version # 0 /\ inv[a].status = "running"}

(* inventory::registry, names and actions: the Assistants whose binding the contract       *)
(* admits.                                                                                 *)
RegistryOf(inv) == {a \in InstalledIn(inv) : inv[a].status # "invalid"}

(* enabled_state: the message's scope, when all of it runs and has a binding.              *)
EnabledValid(scope, inv, registry) == scope \subseteq (RunningIn(inv) \cap registry)

(* uninstall::candidates: every installed Assistant, unless one that is not refused by the *)
(* contract is missing from the registry.                                                  *)
DirectoryValid(inv, registry) ==
  \A a \in InstalledIn(inv) \ registry : inv[a].status = "invalid"

RefusedIn(inv, registry) == {a \in InstalledIn(inv) \ registry : inv[a].status = "invalid"}

=============================================================================
