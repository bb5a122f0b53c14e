---------------------------- MODULE QuestionReads ----------------------------
(***************************************************************************)
(* backend/question_bank/retrieval.py and the evidence the AI gateway      *)
(* takes from it: which versions of a question a reader is shown, from the *)
(* status map, the lifecycle map and the content that were read.           *)
(*                                                                         *)
(* Content[v] is the JSON record of a version: [active, category, tags,    *)
(* words, phrases, kind, level].  words are the folded tokens its text     *)
(* contains, phrases the folded queries its question contains.  A filter   *)
(* is a record [publishable, status, deleted, archived, category, active,  *)
(* tags, mode, words]; a field that is not given is NoFilter.              *)
(***************************************************************************)
EXTENDS QuestionLifecycle, FiniteSets

CONSTANTS Content, NoFilter

(* _status_map and _lifecycle_map, each a SELECT over all the rows.        *)
StatusMap(rows) == [v \in DOMAIN rows |-> rows[v].status]
LifecycleMap(rows) == [v \in DOMAIN rows |-> [deleted |-> rows[v].deleted,
                                              archived |-> rows[v].archived]]

StatusIn(status, v) == IF v \in DOMAIN status THEN status[v] ELSE NoStatus

(* validate_publishable.                                                   *)
Publishable(v, status) == Content[v].active /\ status = "validated"

(* A version without a row is neither deleted nor archived.                *)
Hidden(life, v, f) ==
    /\ v \in DOMAIN life
    /\ \/ life[v].deleted /\ ~f.deleted
       \/ life[v].archived /\ ~f.archived

(* No tags asked for, or one of them, or all of them.                      *)
MatchesTags(v, f) ==
    \/ f.tags = {}
    \/ IF f.mode = "all" THEN f.tags \subseteq Content[v].tags
                         ELSE f.tags \cap Content[v].tags # {}

(* The status that is asked for counts only where not everything must be   *)
(* publishable.                                                            *)
MatchesStatus(v, status, f) ==
    IF f.publishable THEN Publishable(v, status)
    ELSE f.status # NoFilter => status = f.status

MatchesFilter(v, f) ==
    /\ f.category # NoFilter => Content[v].category = f.category
    /\ f.active # NoFilter => Content[v].active = f.active
    /\ MatchesTags(v, f)
    /\ f.words \subseteq Content[v].words

(* Mutant of Listed: publishable_only left out.                            *)
ListedAnyStatus(status, life, content, f) ==
    {v \in content : ~Hidden(life, v, f) /\ MatchesFilter(v, f)}

(* list_questions, after its three reads.                                  *)
Listed(status, life, content, f) ==
    {v \in content :
        /\ ~Hidden(life, v, f)
        /\ MatchesStatus(v, StatusIn(status, v), f)
        /\ MatchesFilter(v, f)}

(* load_question_content without a version takes the newest.               *)
Newest(content) == CHOOSE v \in content : \A u \in content : u <= v

(* fetch_publishable_candidates: the status alone.                         *)
Candidates(rows) == {v \in DOMAIN rows : rows[v].status = "validated"}

(* get_publishable_questions and the keyword of the AI gateway.            *)
Evidence(candidates, content, phrase) ==
    {v \in candidates \cap content :
        Content[v].active /\ phrase \in Content[v].phrases}

(* evidence_checker: a source is high confidence if it is approved and not *)
(* an estimation or a simplification.                                      *)
HighConfidence(v) ==
    /\ Content[v].level = "APPROVED"
    /\ Content[v].kind \in {"standard_requirement", "engineering_interpretation",
                            "internal_engine"}

(* check_evidence.                                                         *)
EvidenceStatus(sources, calculated) ==
    IF calculated THEN "PASS"
    ELSE IF sources = {} THEN "FAIL"
    ELSE IF \A v \in sources : HighConfidence(v) THEN "PASS"
    ELSE "WARN"

(* composer._resolve_result_label.                                         *)
ResultLabel(status, calculated) ==
    IF calculated THEN "CALCULATED"
    ELSE CASE status = "PASS" -> "VALIDATED"
           [] status = "WARN" -> "ESTIMATED"
           [] status = "FAIL" -> "NONE"

(* compose: without evidence, a fixed notice instead of the model's text.  *)
Compose(sources) ==
    LET status == EvidenceStatus(sources, FALSE) IN
    [text |-> IF status = "FAIL" THEN "notice" ELSE "model",
     evidence |-> sources, status |-> status,
     label |-> ResultLabel(status, FALSE), validation |-> status = "WARN"]

(* compute_stats: the versions listed, counted under the status of a later *)
(* map.                                                                    *)
Stats(listed, status) ==
    [total |-> Cardinality(listed),
     by |-> [s \in Status \cup {NoStatus} |->
                Cardinality({v \in listed : StatusIn(status, v) = s})]]

=============================================================================
