------------------------- MODULE MCLeaderboardFeed -------------------------
(* Instances of LeaderboardFeed for TLC: artifacts around the noise floor, *)
(* the thresholds and the masks.                                           *)
EXTENDS LeaderboardFeed

Slice(mean, judge, objective) ==
    [scored_repos |-> 3, tasks |-> None, composite_mean |-> mean, judge_mean |-> judge,
     objective_mean |-> objective, foresight |-> 700]
Skipped == [scored_repos |-> None, tasks |-> 0, composite_mean |-> 0, judge_mean |-> 0,
            objective_mean |-> 0, foresight |-> None]
Unscored == [scored_repos |-> 0, tasks |-> None, composite_mean |-> 0, judge_mean |-> 0,
             objective_mean |-> 0, foresight |-> Corrupt]
OneRepo == [Slice(500, 500, 500) EXCEPT !.scored_repos = None, !.tasks = 4]

\* More repositories than a float can count, and a count of tasks that is null.
Countless == [Slice(500, 500, 500) EXCEPT !.scored_repos = Corrupt, !.tasks = 0]
NullTasks == [OneRepo EXCEPT !.tasks = Null]
NullRepos == [OneRepo EXCEPT !.scored_repos = Null]

Befores == {Slice(500, 500, 500), NullRepos, Skipped, Unscored, Countless, NullTasks,
            Slice(500, Corrupt, 500), Slice(500, None, Null), Slice(500, None, None),
            Slice(-600, 500, 500)}
Afters ==
    {Slice(mean, judge, objective) :
        mean \in {489, 510, 511, 520, 549, 700}, judge \in {489, 490, 540, -600, Null, None},
        objective \in {489, 520}}
    \cup {Skipped, Unscored, Slice(Corrupt, 500, 500), [OneRepo EXCEPT !.composite_mean = 580],
          [Countless EXCEPT !.composite_mean = 580], [NullTasks EXCEPT !.composite_mean = 580],
          [NullRepos EXCEPT !.tasks = 0]}

Rows == {<<>>, [r1 |-> Slice(500, 500, 500)], [r1 |-> Skipped]}
Standard(slice, rows) == [slices |-> [whole |-> slice], per_repo |-> rows]
Partitions == [tuned : {Slice(500, 500, 500), Slice(520, 520, 489), Slice(545, 520, 500),
                        Slice(700, 700, 700), Unscored},
               held_out : {Slice(500, 500, 500), Slice(511, 500, 520), Slice(700, 520, 520),
                           Unscored}]
Report(slices) == [slices |-> slices, per_repo |-> <<>>]

Pair(baseline, candidate, anchor) ==
    [baseline |-> baseline, candidate |-> candidate, anchor |-> anchor]

PublicCases ==
    {Pair(Standard(b, r), Standard(c, r), None) : b \in Befores, c \in Afters, r \in Rows}
    \cup {Pair(Report(b), Report(c), Report(b)) : b, c \in Partitions}
    \cup {Pair(Report(b), Standard(Slice(700, 700, 700), <<>>), Standard(Unscored, <<>>)) :
             b \in Partitions}
    \cup {Pair(Standard(Slice(500, 500, 500), <<>>), Standard(c, <<>>),
               Standard(Slice(480, 480, 480), <<>>)) : c \in Afters}
    \cup {Pair(None, Standard(Skipped, <<>>), None)}

PrivateCases ==
    {Pair(Standard(Slice(500, 500, 500), <<>>), Standard(c, <<>>),
          Standard(Slice(480, 480, 480), <<>>)) :
        c \in {Slice(489, 500, 500), Slice(511, 500, 500), Slice(549, 490, 520),
               Slice(700, 700, 700), Slice(700, 700, 480), Skipped, Countless}}
    \cup {Pair(Report(b), Report(c), Report(b)) :
             b \in {[tuned |-> Slice(500, 500, 500), held_out |-> Slice(500, 500, 500)]},
             c \in {[tuned |-> Slice(700, 700, 700), held_out |-> Slice(521, 500, 520)],
                    [tuned |-> Slice(700, 700, 700), held_out |-> Unscored]}}

TargetCases == [public |-> PublicCases, private |-> PrivateCases]

=============================================================================
