------------------------------ MODULE MCTests ------------------------------
(***************************************************************************)
(* Test making on a small instance: a class with an overloaded, a private  *)
(* and a most complex method; test files with a helper twice, with a test  *)
(* twice and with a bare member; answers that add, replace, replace twice, *)
(* replace bare members and declare a class; a whole file that moves an    *)
(* assert from the first of two tests of one name to another test.         *)
(***************************************************************************)
EXTENDS TestMaking

Item(kind, line) == [kind |-> kind, line |-> line]
Method(name, kind, from, to, items) ==
    [name |-> name, kind |-> kind, first |-> from, last |-> to, items |-> items]
Member(name, isTest, skips, asserts) ==
    [name |-> name, test |-> isTest, bare |-> FALSE, skips |-> skips, asserts |-> asserts]
Bare(name, asserts) ==
    [name |-> name, test |-> FALSE, bare |-> TRUE, skips |-> 0, asserts |-> asserts]
Source(imports, members) == [imports |-> imports, members |-> members]
Reply(imports, members, inner) == [imports |-> imports, members |-> members, inner |-> inner]

MCClasses ==
    {<<Method("C", "constructor", 1, 2, {}),
       Method("p", "public", 3, 5, {Item("branch", 4)}),
       Method("q", "private", 6, 7, {}),
       Method("p", "public", 8, 9, {}),
       Method("r", "public", 10, 12, {Item("null", 11), Item("branch", 11)})>>}

MCTestFiles ==
    {NoFile,
     Source({"junit"},
            <<Member("a", TRUE, 0, <<"x", "y">>), Member("h", FALSE, 0, <<"x">>),
              Member("h", FALSE, 0, <<>>), Member("b", TRUE, 0, <<"y">>)>>),
     Source({}, <<Member("a", TRUE, 1, <<"x">>), Bare("g", <<>>), Member("b", TRUE, 0, <<"z">>)>>),
     Source({}, <<Member("a", TRUE, 0, <<"x">>), Member("a", TRUE, 0, <<"y">>),
                  Member("b", TRUE, 0, <<"z">>)>>)}

MCFragments ==
    {Reply({"mockito"}, <<Member("c", TRUE, 0, <<"x">>)>>, <<>>),
     Reply({}, <<Member("b", TRUE, 0, <<"y", "y">>), Member("d", TRUE, 1, <<>>)>>, <<>>),
     Reply({"junit"}, <<Member("h", FALSE, 0, <<"x">>), Member("b", TRUE, 0, <<"x">>),
                         Member("b", TRUE, 0, <<"z">>)>>, <<>>),
     Reply({}, <<Member("b", TRUE, 0, <<"y", "z">>), Bare("h", <<"x", "y">>), Bare("g", <<"x">>)>>,
            <<>>),
     Reply({}, <<Member("c", TRUE, 0, <<"x">>), Bare("h", <<>>)>>, <<>>),
     Reply({}, <<Member("c", TRUE, 0, <<"x">>)>>,
            <<<<Member("a", TRUE, 0, <<"x">>), Member("b", TRUE, 0, <<"y", "y">>)>>>>)}

MCWholeFiles ==
    {Source({}, <<Member("a", TRUE, 0, <<"x">>), Member("b", TRUE, 0, <<"y", "y", "x">>)>>),
     Source({}, <<Member("a", TRUE, 0, <<"y", "x">>), Member("b", FALSE, 0, <<"y", "x">>)>>),
     Source({}, <<Member("b", TRUE, 0, <<"z", "x", "y">>), Member("a", TRUE, 0, <<"x", "y">>),
                  Member("e", TRUE, 0, <<"y">>)>>),
     Source({}, <<Member("a", TRUE, 0, <<>>), Member("a", TRUE, 0, <<"y">>),
                  Member("b", TRUE, 0, <<"z", "x">>)>>)}

MCAuthorized == {{}, {"b"}}
=============================================================================
