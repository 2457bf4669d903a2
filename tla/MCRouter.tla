------------------------------ MODULE MCRouter ------------------------------
(* Declarations and request paths for Router: literals that share prefixes,
   differ in case or split each other, parameters with equal and different
   names, a parameter in the middle of a segment, a catch-all, and groups with
   and without slashes at the ends of their prefixes. *)
EXTENDS Router, RadixTree

OnRouter(method, path, at) ==
    [via |-> "router", levels |-> <<>>, method |-> method, path |-> path,
     mws |-> <<"route">>, at |-> at, chain |-> <<"route">>]

InGroup(levels, path, at, chain) ==
    [via |-> "group", levels |-> levels, method |-> "GET", path |-> path,
     mws |-> <<"route">>, at |-> at, chain |-> chain]

AsStatic(path, at) ==
    [via |-> "static", levels |-> <<>>, method |-> "GET", path |-> path,
     mws |-> <<>>, at |-> at, chain |-> <<>>]

InGroupStatic(levels, path, at, chain) ==
    [via |-> "groupStatic", levels |-> levels, method |-> "GET", path |-> path,
     mws |-> <<>>, at |-> at, chain |-> chain]

Level(prefix, mw) == [prefix |-> prefix, mws |-> <<mw>>]

MCDeclarable ==
    {OnRouter("GET", <<>>, <<"/">>),
     OnRouter("GET", <<"a">>, <<"/", "a">>),
     OnRouter("POST", <<"/", "a">>, <<"/", "a">>),
     OnRouter("GET", <<"/", "a", "b", "/">>, <<"/", "a", "b">>),
     OnRouter("GET", <<"/", "A", "a">>, <<"/", "A", "a">>),
     OnRouter("GET", <<"/", ":x">>, <<"/", ":x">>),
     OnRouter("GET", <<"/", "a", ":x">>, <<"/", "a", ":x">>),
     InGroup(<<Level(<<"a", "/">>, "g")>>, <<"b">>, <<"/", "a", "/", "b">>,
             <<"g", "route">>),
     InGroup(<<Level(<<"/", ":y">>, "g"), Level(<<"b">>, "h")>>, <<"/">>,
             <<"/", ":y", "/", "b">>, <<"g", "h", "route">>),
     AsStatic(<<"/", "a">>, <<"/", "a", "/", "*filepath">>),
     InGroupStatic(<<Level(<<"a">>, "g")>>, <<"/">>, <<"/", "a", "/", "*filepath">>,
                   <<"g">>)}

MCPaths ==
    {<<"/">>, <<"/", "a">>, <<"/", "A">>, <<"/", "b">>,
     <<"/", "a", "b">>, <<"/", "a", "a">>, <<"/", "A", "B", "/">>,
     <<"/", "a", "/", "b">>, <<"/", "b", "/", "b">>, <<"/", "a", "/", "a">>,
     <<"/", "a", "b", "/", "b">>, <<"/", "a", "/", "/">>}

(* These declarations are as the proof about middleware chains asks. *)
ASSUME MCChainsDeclared == ChainsDeclared

=============================================================================
