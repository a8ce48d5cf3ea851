----------------------------- MODULE MCDefaults -----------------------------
(***************************************************************************)
(* TLC instances of Defaults: one or two modules and bob_defaults a, b, c. *)
(***************************************************************************)
EXTENDS Defaults

MCFeatureList == <<"f", "g">>

Lists(S) == UNION {SetToSeqs(T) : T \in SUBSET S}

Unsupported == [part \in Part |-> [v \in Variant |-> Unset]]
Bare ==
  [ modules |-> Module \ {"n"}, features |-> {},
    defaults |-> [m \in Module |-> <<>>], sets |-> [m \in Module |-> {<<"core", "plain">>}],
    supported |-> [m \in Module |-> Unsupported] ]

(* Any nesting of three defaults, cycles included.                         *)
Nestings ==
  { [Bare EXCEPT !.defaults["m"] = m, !.defaults["a"] = a, !.defaults["b"] = b, !.defaults["c"] = c] :
      m \in Lists({"a", "b", "c"}), a \in Lists({"b", "c"}), b \in {<<>>, <<"c">>, <<"a">>},
      c \in {<<>>, <<"b">>} }

(* Two modules share a default; each may set a property anywhere.          *)
Shared ==
  [Bare EXCEPT !.modules = {"m", "n", "a", "b"}, !.defaults["m"] = <<"a">>, !.defaults["n"] = <<"a">>, !.defaults["a"] = <<"b">>]

Placings ==
  { {<<"core", "plain">>, <<"target", "plain">>, <<"core", "f">>}, {<<"target", "g">>, <<"target", "f">>},
    {<<"host", "f">>, <<"core", "g">>, <<"core", "f">>}, {} }

Settings ==
  { [Shared EXCEPT !.features = on, !.sets["m"] = m, !.sets["a"] = a, !.sets["b"] = b,
                   !.supported["b"]["plain"]["host"] = "true"] :
      on \in SUBSET Range(MCFeatureList), m \in Placings, a \in Placings, b \in Placings }

(* host_supported and target_supported, on a module and two defaults.      *)
Supports ==
  { [Shared EXCEPT !.features = on, !.supported["m"]["plain"]["host"] = m, !.supported["m"]["plain"]["target"] = t,
                   !.supported["m"]["f"]["host"] = f, !.supported["a"]["plain"]["host"] = a,
                   !.supported["b"]["f"]["host"] = b] :
      on \in {{}, {"f"}}, m \in Tri, t \in {Unset, "false"}, f \in {Unset, "true"}, a \in Tri, b \in {Unset, "true"} }

All == Nestings \cup Settings \cup Supports
=============================================================================
