-------------------------- MODULE MCSymbolWrites ----------------------------
(* Small instances of SymbolWrites for TLC.                                *)
EXTENDS SymbolWrites

SomeFiles == {"a.go", "b.go", "a_test.go"}
InPackage(f) == IF f = "b.go" THEN "q" ELSE "p"

Decl(symbols, paren, uses) ==
    [symbols |-> symbols, paren |-> paren, uses |-> uses, edit |-> {}]

F == <<"p", "F">>
g == <<"p", "g">>
h == <<"p", "h">>

(* q uses F twice on a line; g and h are declared together, in parentheses *)
(* in p and as names of one line in q.                                     *)
Tree ==
    [f \in SomeFiles |->
        CASE f = "a.go" -> <<Decl({g, h}, TRUE, << >>), Decl({F}, FALSE, <<h>>)>>
          [] f = "b.go" -> <<Decl({<<"q", "g">>, <<"q", "h">>}, FALSE, <<F, F>>)>>
          [] OTHER -> <<Decl({<<"p", "T">>}, FALSE, <<g>>)>>]
=============================================================================
