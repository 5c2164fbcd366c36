------------------------------ MODULE MCControl ------------------------------
(* Small instances of Control: packages of two names, with a dependency in  *)
(* up to two fields.                                                        *)
EXTENDS Control

CONSTANTS lib, pkg

Ops == UNION {[1..n -> {"<", ">", "="}] : n \in 1..2}
With(names, ops) == [name : names, ops : ops, ver : Versions, mark : {FALSE}]
Names == [name : Packages, ops : {<<>>}, ver : {0}, mark : BOOLEAN]

None == [f \in Fields |-> {}]
OneItem == {[None EXCEPT ![f] = {i}] : f \in Fields, i \in Names \cup With({lib}, Ops)}
TwoItems ==
    {[None EXCEPT !.PKGDEP = {i}, !.PKGPRDEP = {j}] :
        i \in With({lib}, Pairs),
        j \in {Plain(lib), Plain(pkg)} \cup With(Packages, Pairs)}

SomeFields ==
    {[items |-> x, auto |-> a] : x \in OneItem, a \in {{}, {"PKGDEP"}}}
    \cup {[items |-> x, auto |-> {}] : x \in TwoItems}
=============================================================================
