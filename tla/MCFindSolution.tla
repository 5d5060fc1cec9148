--------------------------- MODULE MCFindSolution ---------------------------
(* A small instance of FindSolution for TLC. *)
EXTENDS FindSolution

w(word, role) == [word |-> word, role |-> role]

\* AttributeError: module 'numpy' has no attribute <name> (in this release)
Missing(object, name) ==
    <<w("AttributeError", "class"), w(object, "object"), w("has", "stop"), w(name, "attribute"),
      w("release", "plain"), w("numpy", "plain")>>
\* ImportError: cannot import name <name> from module
Import(name) ==
    <<w("ImportError", "class"), w("import", "plain"), w(name, "import"),
      w("from", "stop"), w("numpy", "plain"), w("core", "plain")>>
\* DeprecationWarning: <name> was removed in this release
Removed(name) ==
    <<w("DeprecationWarning", "class"), w(name, "removed"), w("was", "stop"),
      w("removed", "plain"), w("this", "stop"), w("release", "plain"), w("numpy", "plain")>>
\* TypeError: unexpected keyword argument <name>; call proxies()
Argument(class, name) ==
    <<w(class, "class"), w("unexpected", "plain"), w("keyword", "plain"),
      w("argument", "plain"), w(name, "quoted"), w("init", "method")>>

Texts == {Missing("module", "NAN"), Missing("module", "Inf"), Missing("frame", "NAN"),
          Import("NAN"), Import("Inf"), Removed("NAN"), Removed("Inf"),
          Argument("TypeError", "app"), Argument("TypeError", "proxies"),
          Argument("ValueError", "app"),
          <<w("ValueError", "class")>> \o Argument("TypeError", "app"),
          <<w("unexpected", "plain"), w("keyword", "plain"), w("argument", "plain"),
            w("transport", "plain")>>,
          <<>>}

v(a, b, c, pre) == [release |-> <<a, b, c>>, pre |-> pre]
clause(op, at) == [op |-> op, at |-> at]

Ats == {<<0>>, <<1>>, <<1, 1>>, <<0, 0, 2>>}
Clauses == {c \in [op : Operators, at : Ats] : c.op = "~=" => Len(c.at) > 1}

RangeSpecs == {RangeRequest({c, d}) : c \in Clauses, d \in Clauses}
ExactSpecs == {ExactRequest(v(a, b, c, pre)) :
                  a \in 0 .. 2, b \in 0 .. 1, c \in 0 .. 2, pre \in BOOLEAN}

Affected == {{clause(">=", <<1>>)}, {clause("<", <<1>>)}, {clause(">", <<1, 0>>)},
             {clause("!=.*", <<1>>), clause(">", <<0, 1>>)}, {clause("~=", <<1, 1>>)},
             {clause("<", <<0, 0, 2>>)}, {clause("<=", <<0, 1>>), clause("!=", <<0>>)}}

\* Three packages, of which two are known by name.
Observed == [numpy |-> v(1, 1, 0, FALSE), pandas |-> v(1, 0, 0, FALSE),
             other |-> v(1, 0, 0, FALSE)]
signature(t) == [text |-> t, regex |-> {}]

bundle(package, names, affected, text) ==
    [package |-> package, names |-> names, affected |-> affected,
     fingerprint |-> signature(text), variants |-> <<>>, observed |-> Observed,
     golden |-> TRUE, contract |-> TRUE, unique |-> TRUE]

RangeShelves == {{bundle("numpy", {"numpy"}, a, <<>>)} : a \in Affected}

FromOne == {clause(">=", <<1>>)}
First == bundle("numpy", {"numpy"}, FromOne, Missing("module", "NAN"))

\* Two bundles whose signatures compete, one of them with variants.
PairShelves ==
    {{[First EXCEPT !.variants = <<[text |-> Removed("NAN"), regex |-> {Import("Inf")}],
                                   [text |-> Argument("TypeError", "app"), regex |-> {}]>>],
      [bundle("numpy", {"numpy"}, {clause("<", <<1>>)}, t) EXCEPT !.golden = FALSE]} :
        t \in {Import("NAN"), Removed("NAN"), Argument("TypeError", "app")}}
    \cup
    {{[First EXCEPT !.unique = FALSE],
      [bundle("numpy", {"numpy"}, FromOne, Argument("TypeError", "proxies"))
          EXCEPT !.contract = FALSE]},
     {bundle("other", {"numpy"}, FromOne, Missing("module", "NAN"))},
     {[bundle("numpy", {"numpy", "pandas"}, FromOne, Missing("frame", "NAN"))
          EXCEPT !.golden = FALSE]}}

MCShelves == RangeShelves \cup PairShelves

Asking(text, mentions, versions, lower) ==
    [text |-> text, mentions |-> mentions, versions |-> versions, lower |-> lower]

NoVersions == [p \in {} |-> None]
Numpy(spec) == [p \in {"numpy"} |-> spec]

VersionRequests ==
    {Asking(<<>>, {}, Numpy(s), TRUE) :
        s \in RangeSpecs \cup ExactSpecs \cup {MalformedRequest}}

TextRequests ==
    {Asking(t, m, vs, lower) :
        t \in Texts, m \in {{}, {"numpy"}}, lower \in BOOLEAN,
        vs \in {NoVersions, Numpy(ExactRequest(Observed["numpy"])),
                Numpy(ExactRequest(v(2, 0, 0, FALSE))),
                [p \in {"other"} |-> ExactRequest(v(2, 0, 0, FALSE))],
                [p \in {"numpy", "pandas"} |-> ExactRequest(Observed["pandas"])]}}

MCRequests ==
    [s \in MCShelves |-> IF s \in RangeShelves THEN VersionRequests ELSE TextRequests]
=============================================================================
