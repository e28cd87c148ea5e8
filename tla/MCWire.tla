------------------------------- MODULE MCWire -------------------------------
(* Messages at the limits of the formats: empty and full lists, paths with  *)
(* and without empty subtrees, indices of one and two groups, levels that   *)
(* change, both tips.                                                       *)
EXTENDS WireFormats, TLC

SampleInsertion == <<3, 6, 1, 0, <<1, 5>>, 2, <<2, 1>>>>
SampleNodes == ((<<0, 1>> :> 5) @@ (<<0, 6>> :> 2)) @@ ((<<1, 0>> :> 4) @@ (<<1, 3>> :> 7))
SampleLeaves == << [index |-> 1, leaf |-> <<2, 5, 4>>], [index |-> 6, leaf |-> <<5, 0, 0>>] >>

SampleMessages == [
    nonmembership |-> { <<2, 3, 6, 1, 0, <<4, 5, 6>>>> },
    insertion  |-> { <<2>> \o SampleInsertion },
    nullifiers |-> { <<2, 1, <<<<>>, <<>>, <<>>>>>>,
                     <<2, 0, << << <<6>> >>, << <<3, 7, 1, 0, <<1>>>> >>, <<SampleInsertion>> >>>> },
    response   |-> { <<2, 1, 4, 5, 3, 6, 1, 0, <<1, 7, 3, 2>>>>, <<2, 0, 1, 5, 3, 6, 1, 0, <<1>>>> },
    cohort     |-> { <<2, 0, 3, 1, 4, 6, SampleLeaves, SampleNodes>>,
                     <<2, 1, 3, 2, 2, 6, <<>>, <<>>>> },
    sorted     |-> { <<2, 0, 2, 2, 2, 6, 3, 1, << << <<2>>, <<3>> >> >>, SampleNodes>> },
    block      |-> { <<2, 5, <<<<>>>>, <<2, <<<<>>>>, <<<<>>>>>>, 1, <<<<>>>>>>,
                     <<2, 5, << << <<1, 0, 3, 1, 6, <<7, 7>>>> >> >>,
                       <<2, << << <<3>> >> >>, << << <<[tag |-> 1, of |-> <<4>>]>>, <<[tag |-> 0, of |-> <<>>]>> >> >> >>,
                       2, << << <<0, << <<SampleInsertion>> >> >>, <<1, << <<>> >> >> >> >> >> },
    compact    |-> { <<2, 3, [tag |-> 0, of |-> <<>>], 0, <<<<>>>>, <<>>>>,
                     <<2, 3, [tag |-> 1, of |-> <<6>>], 3, << << <<4>>, <<5>> >> >>,
                       (0 :> <<7, 2>>) @@ (1 :> <<6, 3>>)>> },
    roots      |-> { <<2, 5, 3, << << <<4>>, <<5>> >> >>, << << <<0, 7>>, <<1, 6>> >> >> >> },
    request    |-> { <<2, [tag |-> 1, of |-> <<6>>]>>, <<2, [tag |-> 2, of |-> <<1, 7>>]>>,
                     <<2, [tag |-> 3, of |-> <<>>]>> },
    snapshot   |-> { [depth |-> 2, tip |-> <<>>, trees |-> [code \in PoolCodes |-> <<>>],
                      forest |-> <<>>, index |-> <<>>],
                     [depth |-> 2, tip |-> <<0>>, trees |-> [code \in PoolCodes |-> IF code = 0 THEN <<5, 2, 7>> ELSE <<4>>],
                      forest |-> <<6>>, index |-> (<<1, 0>> :> <<3, 1, 6, <<7>>>>) @@ (<<1, 1>> :> <<3, 0, 5, <<>>>>)] }]
=============================================================================
