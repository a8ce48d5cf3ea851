--------------------------- MODULE MCConfigSystem ---------------------------
(***************************************************************************)
(* TLC instances of ConfigSystem: families of small Mconfigs.              *)
(***************************************************************************)
EXTENDS ConfigSystem

And(d, e) == <<"and", d, e>>
Not(e) == <<"not", e>>
NoDefault == <<None>>

(* Bools with a prompt, and no statement under any.                        *)
Bare(order) ==
  LET option == ToSet(order)
  IN  [ order |-> order, prompt |-> option, strings |-> {},
        group |-> [k \in option |-> NoGroup],
        depends |-> [k \in option |-> Yes], default |-> [k \in option |-> NoDefault],
        defaultIf |-> [k \in option |-> <<>>],
        select |-> [k \in option |-> <<>>], selectIf |-> [k \in option |-> <<>>] ]

Conditional(d, k) == {s[1] : s \in ToSet(d.selectIf[k])}
Targets(d) == UNION {ToSet(d.select[k]) \cup Conditional(d, k) : k \in ToSet(d.order)}

(* The documented way to use select: only on options without dependencies, *)
(* and with or without a condition but not both.                           *)
Proper(d) ==
  /\ \A j \in Targets(d) : d.depends[j] = Yes
  /\ \A k \in ToSet(d.order) : ToSet(d.select[k]) \cap Conditional(d, k) = {}

(* A, B and C: an option looks at earlier ones and selects later ones.     *)
ABC == Bare(<<"A", "B", "C">>)

Plain ==
  { [ABC EXCEPT !.depends["B"] = b, !.depends["C"] = c, !.defaultIf["C"] = ci,
                 !.default["B"] = bd, !.select["A"] = as, !.select["B"] = bs,
                 !.selectIf["A"] = ai] :
    b \in {Yes, Not(Id("A"))}, c \in {Yes, And(Id("A"), Not(Id("B")))},
    ci \in {<<>>, <<<<Not(Id("B")), Id("A")>>, <<Id("A"), No>>>>},
    bd \in {NoDefault, Id("A")}, as \in {<<>>, <<"B">>, <<"C">>},
    bs \in {<<>>, <<"C">>}, ai \in {<<>>, <<<<"C", Id("B")>>>>} }

ProperPlain == {d \in Plain : Proper(d)}

(* P and Q are a choice, A is above it and X below.                        *)
WithChoice ==
  [Bare(<<"A", "P", "Q", "X">>) EXCEPT !.group["P"] = "choice", !.group["Q"] = "choice"]

OneChoice ==
  { [WithChoice EXCEPT !.depends["P"] = p, !.depends["Q"] = q, !.default["Q"] = dq,
                       !.default["X"] = x[1], !.depends["X"] = x[2]] :
    p \in {Yes, Id("A")}, q \in {Yes, Id("A"), Not(Id("A"))}, dq \in {NoDefault, Yes},
    x \in {<<Id("P"), Yes>>, <<Yes, Id("Q")>>} }

(* The documentation's example: an entry of a choice selects an option.    *)
ChoiceSelects ==
  { [WithChoice EXCEPT !.select["P"] = <<"X">>, !.depends["Q"] = q] : q \in {Yes, Id("A")} }

(* S is a string and C hidden; the Mconfig may change between sessions.    *)
ASC == Bare(<<"A", "S", "C">>)

SIs(v) == <<"=", Id("S"), <<"string", v>>>>

Edited ==
  { [ASC EXCEPT !.prompt = {"A", "S"} \cup p, !.strings = {"S"}, !.depends["S"] = s,
                 !.defaultIf["S"] = si, !.defaultIf["C"] = ci, !.select["A"] = as] :
    p \in {{}, {"C"}}, s \in {Yes, Id("A")},
    si \in {<<>>, <<<<Id("A"), <<"string", "s">>>>>>},
    ci \in {<<>>, <<<<SIs("s"), Id("A")>>, <<SIs("t"), Yes>>>>}, as \in {<<>>, <<"C">>} }

EditedInto(d) == IF d \in Edited THEN Edited ELSE {}

Correct == ProperPlain \cup OneChoice \cup Edited

(* A selects S although S depends on D, which is off.                      *)
Forced == {[Bare(<<"D", "S", "A">>) EXCEPT !.depends["S"] = Id("D"), !.select["A"] = <<"S">>]}
=============================================================================
