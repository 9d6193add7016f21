------------------------------ MODULE MCUsernames ------------------------------
(* A finite instance of Usernames: names of "a", "b" and "_", which clients  *)
(* also type with "A", blanks and "%".                                       *)
EXTENDS Usernames, TLC

CONSTANTS ann, bob, cyn, g1, r1

MCNameChars == <<"_", "a", "b">>
MCLowerCase == [c \in {"A"} |-> "a"]
MCOwner == [g \in Groups |-> ann]

\* Five names; some differ by an underscore, and one is the beginning of another.
MCTexts ==
    {<<"a", "_", "b">>, <<"a", "a", "b">>, <<"a", "b", "b">>, <<"a", "a", "b", "a">>, <<"b", "b", "b">>,
     <<"A", "_", "b", " ">>, <<" ", "A", "a", "b">>, <<"a", "_">>, <<"A", "a">>, <<"a">>,
     <<"a", "%">>, <<" ">>}

MCSymmetry == Permutations({bob, cyn})
===============================================================================
