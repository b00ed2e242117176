---------------------------- MODULE AgentReview ----------------------------
(***************************************************************************)
(* agent/review.py: what the review of one pull request is made of, from   *)
(* the two answers of gh that scripts/review_pr.py fetches it with and the *)
(* reply of the model.  A field of a reply is known by its kind, as in     *)
(* AgentSolve: null, blank, text, list, zero, another number, object; a    *)
(* word or a truth value by itself.                                        *)
(***************************************************************************)
EXTENDS Sequences, SequencesExt

CONSTANT Views    \* what gh may answer when it is asked for the pull request

-----------------------------------------------------------------------------
(* scripts/review_pr.py.                                                   *)

\* view: the first answer, metadata and files.  diff: the second.  An answer is missing
\* (gh is not installed, exits with an error or says nothing) or malformed.
FetchFails(view) == view.json \in {"missing", "malformed"} \/ view.diff = "missing"

\* _pr_author: of an account that is gone, or no login, the ghost.
PrAuthor(view) == IF view.author = "text" THEN "text" ELSE "ghost"

\* _pr_files_list: a list's usable paths, by the surface that they are on.
PrFilesList(view) ==
    IF view.files = "other" THEN <<>> ELSE SelectSeq(view.paths, LAMBDA p : p # "unusable")

FetchPr(view) == [author |-> PrAuthor(view), files |-> PrFilesList(view)]

-----------------------------------------------------------------------------
(* agent/review.py.                                                        *)

ReviewActions == {"merge", "request-changes", "reject", "comment"}
ValueLabels == {"perf:pending", "mult:contribution"}

ReviewSynonyms ==
    [a \in {"approve", "lgtm", "changes requested", "decline", "close", "hold"} |->
        CASE a \in {"approve", "lgtm"} -> "merge"
          [] a = "changes requested" -> "request-changes"
          [] a \in {"decline", "close"} -> "reject"
          [] OTHER -> "comment"]

\* _normalize_review_action: what is no known verb is a comment.
NormalizeReviewAction(action) ==
    IF action \in ReviewActions THEN action
    ELSE IF action \in DOMAIN ReviewSynonyms THEN ReviewSynonyms[action] ELSE "comment"

\* _normalize_value_label, for which a prefix does not count.
NormalizeValueLabel(label) ==
    IF label \in {"perf:pending", "pending", "mult:pending"}
    THEN "perf:pending" ELSE "mult:contribution"

\* _normalize_bool: of a text only "true", "yes" and "1" are true, of the numbers all but 0.
NormalizeBool(value, default) ==
    CASE value \in {"true", "yes", "number"} -> TRUE
      [] value \in {"null", "list", "object"} -> default
      [] OTHER -> FALSE

\* _normalize_concerns and _normalize_text
NormalizeConcerns(value) == IF value \in {"text", "list"} THEN "texts" ELSE "empty"
NormalizeReviewText(value) == IF value \in {"null", "blank"} THEN "blank" ELSE "text"

\* The stub of review_pr, in the form of a reply.
ReviewStub(pull) ==
    [shape |-> "object", size |-> 0, action |-> "comment",
     value_label |-> IF Contains(pull.files, "agent") THEN "perf:pending" ELSE "mult:contribution",
     scope_ok |-> "true",
     tests_present |-> IF Contains(pull.files, "tests") THEN "true" ELSE "false",
     summary |-> "text", concerns |-> "null", recommendation |-> "text"]

\* _normalize_review: of a reply that is no object, the stub.
NormalizeReview(payload, stub) ==
    LET out == IF payload.shape = "object" THEN payload ELSE stub
    IN  [action |-> NormalizeReviewAction(out.action),
         value_label |-> NormalizeValueLabel(out.value_label),
         scope_ok |-> NormalizeBool(out.scope_ok, TRUE),
         tests_present |-> NormalizeBool(out.tests_present, stub.tests_present = "true"),
         summary |-> NormalizeReviewText(out.summary),
         concerns |-> NormalizeConcerns(out.concerns),
         recommendation |-> NormalizeReviewText(out.recommendation)]

\* The documented review.
Reviews ==
    [action : ReviewActions, value_label : ValueLabels, scope_ok : BOOLEAN,
     tests_present : BOOLEAN, summary : {"blank", "text"}, concerns : {"texts", "empty"},
     recommendation : {"blank", "text"}]
=============================================================================
