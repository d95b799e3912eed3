----------------------------- MODULE Aggregator -----------------------------
(***************************************************************************)
(* aggregator.go: how the answers of a flow's upstreams become one result. *)
(* Pure definitions.                                                       *)
(*                                                                         *)
(* An answer is [kind, status, body, from].  A body is the form of the     *)
(* JSON text ("empty", "invalid", "object", "null", "value" for the rest)  *)
(* and the set of keys of an object.  Unmarshalling null into a map gives  *)
(* an empty one and no error, so merge takes null for an object without    *)
(* keys.  No code looks inside a value, so a value is represented by the   *)
(* upstream it came from.                                                  *)
(*                                                                         *)
(* A result is [form, content, errors, status, partial]: form is the JSON  *)
(* form of the data and content where its parts come from (key -> upstream *)
(* for an object, a sequence of upstreams for an array).                   *)
(***************************************************************************)
EXTENDS UpstreamErrors, SequencesExt

\* RawMessage("null"), the namespaced value of an upstream with no body.
Null == 0

IsFailed(a) == a.kind # NoError

\* A loop over 1 .. n that appends the indices in S to a slice and skips the
\* others.  (SelectSeq would do, but has no definition to reason from.)
Loop(S, n) ==
    LET out[i \in 0 .. n] ==
            IF i = 0 THEN <<>>
            ELSE IF i \in S THEN Append(out[i - 1], i)
            ELSE out[i - 1]
    IN  out[n]

Result(form, content, errors, status, partial) ==
    [form |-> form, content |-> content, errors |-> errors,
     status |-> status, partial |-> partial]

\* A result without data: the early returns of the three strategies.
ErrorResult(errors, status) == Result("none", <<>>, errors, status, FALSE)
respInternalError == ErrorResult(<<"INTERNAL">>, 0)
respUpstreamMalformedError == ErrorResult(<<"UPSTREAM_MALFORMED">>, 0)

\* The first occurrence of every error, in order.
dedupeErrors(errs) ==
    LET out == Loop({i \in DOMAIN errs : \A j \in 1 .. (i - 1) : errs[j] # errs[i]}, Len(errs))
    IN  [j \in DOMAIN out |-> errs[out[j]]]

collectErrors(answers) ==
    LET failed == Loop({i \in DOMAIN answers : IsFailed(answers[i])}, Len(answers))
    IN  [j \in DOMAIN failed |-> mapUpstreamError(answers[failed[j]].kind)]

\* Mutant of sharedFailureStatus: failures that are no client errors are skipped.
sharedFailureStatusMutSkip(answers) ==
    LET statuses == {a.status : a \in {b \in ToSet(answers) : b.kind = "client_error"}}
    IN  IF Cardinality(statuses) = 1 THEN CHOOSE s \in statuses : TRUE ELSE 0

\* The status all failed upstreams agree on, when all are client errors; or 0.
sharedFailureStatus(answers) ==
    LET failed == {a \in ToSet(answers) : IsFailed(a)}
        statuses == {a.status : a \in failed}
    IN  IF Cardinality(statuses) = 1 /\ \A a \in failed : a.kind = "client_error"
        THEN CHOOSE s \in statuses : TRUE
        ELSE 0

\* Mutant of Succeed: errors alone make a result partial.
SucceedMutPartial(form, content, errs, hasSuccessful) ==
    Result(form, content, dedupeErrors(errs), 0, errs # <<>>)

\* The normal return of the three strategies.
Succeed(form, content, errs, hasSuccessful) ==
    Result(form, content, dedupeErrors(errs), 0, errs # <<>> /\ hasSuccessful)

-----------------------------------------------------------------------------
(* merge *)

\* Mutant of Replaces: "prefer" forgets to look at who owns the value.
ReplacesMutPrefer(owner, i, agg) ==
    \/ agg.policy = "overwrite"
    \/ agg.policy = "prefer" /\ owner # agg.preferred

\* applyConflictPolicy: upstream i's value takes the place of owner's.
Replaces(owner, i, agg) ==
    \/ agg.policy = "overwrite"
    \/ agg.policy = "prefer" /\ owner # agg.preferred /\ i = agg.preferred

IsObject(a) == ~IsFailed(a) /\ a.body.form = "object"
IsMalformed(a) == ~IsFailed(a) /\ a.body.form \in {"invalid", "value"}

\* Under "error", upstream i's object has a key an earlier one has set.
Conflicts(answers, i, agg) ==
    /\ agg.policy = "error" /\ IsObject(answers[i])
    /\ \E j \in 1 .. i - 1 :
          IsObject(answers[j]) /\ answers[j].body.keys \cap answers[i].body.keys # {}

\* collectFields' loop returns at the first of these, or not at all (0).
earlyReturn(answers, agg) ==
    LET returns == {i \in DOMAIN answers :
                        \/ ~agg.bestEffort /\ (IsFailed(answers[i]) \/ IsMalformed(answers[i]))
                        \/ Conflicts(answers, i, agg)}
    IN  IF returns = {} THEN 0 ELSE Min(returns)

\* The upstream whose value of k is in fields after the loop.
owner(answers, k, agg) ==
    LET field[i \in 0 .. Len(answers)] ==
            IF i = 0 THEN 0
            ELSE IF /\ IsObject(answers[i]) /\ k \in answers[i].body.keys
                    /\ field[i - 1] = 0 \/ Replaces(field[i - 1], i, agg)
            THEN i
            ELSE field[i - 1]
    IN  field[Len(answers)]

\* collectFields and merged.
merged(answers, agg) ==
    LET i == earlyReturn(answers, agg)
        bad == Loop({j \in DOMAIN answers : IsFailed(answers[j]) \/ IsMalformed(answers[j])},
                    Len(answers))
        errs == [j \in DOMAIN bad |-> IF IsFailed(answers[bad[j]])
                                      THEN mapUpstreamError(answers[bad[j]].kind)
                                      ELSE "UPSTREAM_MALFORMED"]
        keys == UNION {a.body.keys : a \in {b \in ToSet(answers) : IsObject(b)}}
    IN  CASE i # 0 /\ IsFailed(answers[i]) ->
                ErrorResult(dedupeErrors(collectErrors(answers)), sharedFailureStatus(answers))
          [] i # 0 /\ IsMalformed(answers[i]) -> respUpstreamMalformedError
          [] i # 0 /\ IsObject(answers[i])    -> ErrorResult(<<"VALUE_CONFLICT">>, 0)
          [] i = 0 ->
                Succeed("object", [k \in keys |-> answers[owner(answers, k, agg)].from],
                        errs, \E a \in ToSet(answers) : ~IsFailed(a))

-----------------------------------------------------------------------------
(* array and namespace *)

\* The loop of arrayed ends at the first failure unless bestEffort; the bodies
\* are parsed only by the final json.Marshal, which fails for all of them if
\* one is no JSON.  Marshalling the nil slice gives null.
arrayed(answers, agg) ==
    LET errs == collectErrors(answers)
        arr  == Loop({i \in DOMAIN answers :
                         ~IsFailed(answers[i]) /\ answers[i].body.form # "empty"}, Len(answers))
    IN  IF errs # <<>> /\ ~agg.bestEffort
        THEN ErrorResult(dedupeErrors(errs), sharedFailureStatus(answers))
        ELSE IF \E i \in ToSet(arr) : answers[i].body.form = "invalid"
        THEN respUpstreamMalformedError
        ELSE Succeed(IF arr = <<>> THEN "null" ELSE "array",
                     [j \in 1 .. Len(arr) |-> answers[arr[j]].from],
                     errs, \E a \in ToSet(answers) : ~IsFailed(a))

\* Only the first failure is reported, and a later upstream of the same name
\* takes the place of an earlier one.
namespaced(names, answers, agg) ==
    LET errs == collectErrors(answers)
        oks  == {i \in DOMAIN answers : ~IsFailed(answers[i])}
        result == [n \in {names[i] : i \in oks} |->
                      answers[Last(Loop({i \in oks : names[i] = n}, Len(answers)))]]
    IN  IF errs # <<>> /\ ~agg.bestEffort
        THEN ErrorResult(<<errs[1]>>, sharedFailureStatus(answers))
        ELSE IF \E n \in DOMAIN result : result[n].body.form = "invalid"
        THEN respInternalError
        ELSE Succeed("object",
                     [n \in DOMAIN result |->
                         IF result[n].body.form = "empty" THEN Null ELSE result[n].from],
                     errs, oks # {})

aggregate(names, answers, agg) ==
    CASE agg.strategy = "merge"     -> merged(answers, agg)
      [] agg.strategy = "array"     -> arrayed(answers, agg)
      [] agg.strategy = "namespace" -> namespaced(names, answers, agg)
=============================================================================
