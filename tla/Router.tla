------------------------------- MODULE Router -------------------------------
(***************************************************************************)
(* The router of router.go and the groups of group.go: routes, global       *)
(* middleware and the auth middleware are declared in any order, Build      *)
(* compiles them once into one radix tree per method, and HandleRequest     *)
(* dispatches every request through those trees, with its answers for HEAD, *)
(* OPTIONS, 405 and 404.                                                    *)
(*                                                                         *)
(* Nothing stops a declaration after Build: it is recorded, and the built    *)
(* router does not know of it.                                              *)
(*                                                                         *)
(* A declaration is a record: via is "router", "group", "static" or         *)
(* "groupStatic", levels the groups it is nested in, outermost first, each  *)
(* with the prefix and the middleware it was given, then method, path and   *)
(* its own middleware.  at and chain are the reference: the pattern that    *)
(* the declaration should serve, and the middleware of its groups and its   *)
(* own, written out.  The trees are those of RadixTree.                     *)
(***************************************************************************)
EXTENDS Patterns, FiniteSets

CONSTANTS
    Declarable,      \* the declarations that may be made
    Methods,         \* request methods
    Paths,           \* request paths
    StrictSlash,     \* Router.StrictSlash
    CaseSensitive,   \* Router.CaseSensitive
    MaxRoutes,       \* bound: routes declared
    MaxCalls,        \* bound: routes, and calls of NoAuth, Use and SetAuth
    Empty,               \* a tree without routes, and on trees
    Insert(_, _, _, _),  \* node.insert
    Search(_, _, _),     \* node.search
    Binds(_, _, _)       \* what a pattern binds: the reference of Search

ASSUME DeclarableAssumption == \A d \in Declarable : d.at \in Seq(STRING)

VARIABLES
    entries,      \* Router.entries: [method, path, mws, noAuth], and decl
    middlewares,  \* Router.middlewares
    auth,         \* Router.authMiddleware # nil
    built,        \* buildOnce is done
    trees,        \* Router.trees, by method; a missing tree is empty
    fallback,     \* Router.fallback: the middleware around its responders
    seen          \* ghost: the table that build has compiled

vars == <<entries, middlewares, auth, built, trees, fallback, seen>>
compiled == <<built, trees, fallback, seen>>

(* What is declared at the moment. *)
Table == [entries |-> entries, middlewares |-> middlewares, auth |-> auth]

TreeMethods == {d.method : d \in Declarable}

Init ==
    /\ entries = <<>>
    /\ middlewares = <<"recover">>   \* New installs Recover first
    /\ auth = FALSE
    /\ built = FALSE
    /\ trees = [m \in TreeMethods |-> Empty]
    /\ fallback = <<>>
    /\ seen = Table

(* matchPath: the trailing slashes are dropped unless StrictSlash. *)
matchPath(path) ==
    IF ~StrictSlash /\ Len(path) > 1 /\ path[Len(path)] = "/"
    THEN LET n == CHOOSE n \in 0..Len(path) :
                      /\ n = 0 \/ path[n] # "/"
                      /\ \A i \in (n + 1)..Len(path) : path[i] = "/"
         IN  IF n = 0 THEN <<"/">> ELSE SubSeq(path, 1, n)
    ELSE path

(* The path begins with a slash. *)
Rooted(path) ==
    IF path = <<>> \/ path[1] # "/" THEN <<"/">> \o path ELSE path

(* strings.TrimSuffix(path, "/") and "/" + strings.TrimPrefix(path, "/"). *)
TrimSuffix(path) ==
    IF path # <<>> /\ path[Len(path)] = "/" THEN SubSeq(path, 1, Len(path) - 1)
                                            ELSE path

(* The middleware of a group comes before what is added to it. *)
merge(g, m) == g.middlewares \o m

(* App.Group for the outermost level, Group.Group for each one below. *)
Group(levels) ==
    LET group[n \in 1..Len(levels)] ==
            IF n = 1
            THEN [prefix |-> Rooted(levels[n].prefix), middlewares |-> levels[n].mws]
            ELSE [prefix |-> TrimSuffix(group[n - 1].prefix) \o Rooted(levels[n].prefix),
                  middlewares |-> merge(group[n - 1], levels[n].mws)]
    IN  group[Len(levels)]

(* Group.fullPath. *)
fullPath(g, path) ==
    LET prefix == TrimSuffix(g.prefix)
    IN  IF path \notin {<<>>, <<"/">>} THEN prefix \o Rooted(path)
        ELSE IF prefix = <<>> THEN <<"/">> ELSE prefix

(* Router.Static registers a catch-all below its prefix; Group.Static puts the
   group's prefix in front of it as it stands. *)
Static(prefix) == TrimSuffix(Rooted(prefix)) \o <<"/", "*filepath">>
groupStatic(g, prefix) == Static(g.prefix \o prefix)

(* The pattern and the middleware with which the router, a group or Static
   calls addRoute. *)
RoutePath(d) ==
    CASE d.via = "router"      -> d.path
      [] d.via = "group"       -> fullPath(Group(d.levels), d.path)
      [] d.via = "groupStatic" -> groupStatic(Group(d.levels), d.path)
      [] OTHER                 -> Static(d.path)

(* Static takes no middleware, and Group.Static hands none of its group on. *)
RouteMws(d) ==
    CASE d.via = "router" -> d.mws
      [] d.via = "group"  -> merge(Group(d.levels), d.mws)
      [] OTHER            -> <<>>

NewEntry(d) ==
    [method |-> d.method, path |-> Rooted(RoutePath(d)), mws |-> RouteMws(d),
     noAuth |-> FALSE, decl |-> d]

(* The calls made so far. *)
Calls ==
    Len(entries) + Cardinality({i \in 1..Len(entries) : entries[i].noAuth})
    + Len(middlewares) - 1 + (IF auth THEN 1 ELSE 0)

(* addRoute. *)
AddRoute(d) ==
    /\ Len(entries) < MaxRoutes /\ Calls < MaxCalls
    /\ entries' = Append(entries, NewEntry(d))
    /\ UNCHANGED <<middlewares, auth, compiled>>

(* Route.NoAuth, chained to the declaration of the route. *)
NoAuth ==
    /\ entries # <<>> /\ Calls < MaxCalls
    /\ entries' = [entries EXCEPT ![Len(entries)].noAuth = TRUE]
    /\ UNCHANGED <<middlewares, auth, compiled>>

(* Use, before or after routes have been declared; bound: once. *)
Use ==
    /\ Len(middlewares) = 1 /\ Calls < MaxCalls
    /\ middlewares' = Append(middlewares, "global")
    /\ UNCHANGED <<entries, auth, compiled>>

(* setAuthMiddleware, called by SetJWTAuth. *)
SetAuth ==
    /\ ~auth /\ Calls < MaxCalls
    /\ auth' = TRUE
    /\ UNCHANGED <<entries, middlewares, compiled>>

-----------------------------------------------------------------------------
(* build. *)

foldCase == ~CaseSensitive

(* Mutant of Compile: auth is decided for the whole router. *)
CompileAuthForAll(t, i) ==
    [route |-> i,
     chain |-> t.middlewares \o (IF t.auth THEN <<"auth">> ELSE <<>>)
               \o t.entries[i].mws]

(* The handler of entry i of table t: global middleware, then auth unless the
   route is NoAuth, then the route's own middleware. *)
Compile(t, i) ==
    [route |-> i,
     chain |-> t.middlewares
               \o (IF t.auth /\ ~t.entries[i].noAuth THEN <<"auth">> ELSE <<>>)
               \o t.entries[i].mws]

(* One turn of build's loop: "/" is the root's own handler. *)
AddEntry(tree, i) ==
    LET path == matchPath(entries[i].path)
    IN  IF path = <<"/">>
        THEN [tree EXCEPT !.handler = Compile(Table, i)]
        ELSE Insert(tree, Tail(path), Compile(Table, i), foldCase)

(* The loop, as far as it concerns the tree of method m. *)
TreeOf(m) ==
    LET upTo[n \in 0..Len(entries)] ==
            IF n = 0 THEN Empty
            ELSE IF entries[n].method = m THEN AddEntry(upTo[n - 1], n) ELSE upTo[n - 1]
    IN  upTo[Len(entries)]

(* buildOnce.Do(build), by Listen or by the first request. *)
Build ==
    /\ ~built
    /\ built' = TRUE
    /\ trees' = [m \in TreeMethods |-> TreeOf(m)]
    /\ fallback' = middlewares
    /\ seen' = Table
    /\ UNCHANGED <<entries, middlewares, auth>>

Next ==
    \/ \E d \in Declarable : AddRoute(d)
    \/ NoAuth
    \/ Use
    \/ SetAuth
    \/ Build

Spec == Init /\ [][Next]_vars

-----------------------------------------------------------------------------
(* HandleRequest, as a function of the request. *)

(* The handler for a normalised path in one tree. *)
Lookup(m, path) ==
    IF m \notin TreeMethods THEN Miss
    ELSE IF path = <<"/">> THEN [h |-> trees[m].handler, caps |-> <<>>]
    ELSE Search(trees[m], Tail(path), foldCase)

(* allowedMethods. *)
allowedMethods(path) ==
    {m \in TreeMethods : Lookup(m, path).h # NoHandler}

Handled(found) ==
    [status |-> "handled", h |-> found.h, caps |-> found.caps, allow |-> {}]

(* The responders of buildFallbacks, wrapped in the global middleware only. *)
Fallback(status, allow) ==
    [status |-> status, h |-> [route |-> 0, chain |-> fallback], caps |-> <<>>,
     allow |-> allow]

(* Mutant of HandleRequest: HEAD is not answered from the GET route. *)
HandleRequestNoHead(method, rawPath) ==
    LET path    == matchPath(rawPath)
        own     == Lookup(method, path)
        allowed == allowedMethods(path)
    IN  CASE own.h # NoHandler -> Handled(own)
          [] own.h = NoHandler /\ allowed = {} -> Fallback("404", {})
          [] OTHER ->
               Fallback(IF method = "OPTIONS" THEN "204" ELSE "405",
                        allowed \cup {"OPTIONS"})

HandleRequest(method, rawPath) ==
    LET path    == matchPath(rawPath)
        own     == Lookup(method, path)
        get     == Lookup("GET", path)
        allowed == allowedMethods(path)
    IN  CASE own.h # NoHandler -> Handled(own)
          [] own.h = NoHandler /\ allowed = {} -> Fallback("404", {})
          [] OTHER ->
               IF method = "OPTIONS"
               THEN Fallback("204", allowed \cup {"OPTIONS"})
               ELSE IF method = "HEAD" /\ get.h # NoHandler
               THEN Handled(get)
               ELSE Fallback("405", allowed \cup {"OPTIONS"})

-----------------------------------------------------------------------------
(* Reference: the route a request should reach, read off the declarations that
   build has seen. *)

RootPath == <<"/">>

Pattern(i) == matchPath(seen.entries[i].decl.at)

(* What route i binds for path, if it matches: "/" is matched by "/" alone. *)
RouteBindings(i, path) ==
    LET pattern == Pattern(i)
    IN  IF pattern = RootPath \/ path = RootPath
        THEN IF pattern = path THEN {<<>>} ELSE {}
        ELSE Binds(Tail(pattern), Tail(path), foldCase)

Matching(m, path) ==
    {i \in 1..Len(seen.entries) :
        seen.entries[i].method = m /\ RouteBindings(i, path) # {}}

(* The best match; among equally specific routes the last declared one. *)
Better(i, j) ==
    \/ Beats(Pattern(i), Pattern(j))
    \/ i > j /\ ~Beats(Pattern(j), Pattern(i))

Winner(m, path) ==
    LET S == Matching(m, path)
    IN  IF S = {} THEN 0 ELSE CHOOSE i \in S : \A j \in S \ {i} : Better(i, j)

Values(caps) == [k \in 1..Len(caps) |-> caps[k][2]]

-----------------------------------------------------------------------------
(* Properties. *)

(* The tree finds, for every method and path, the handler built for the route
   that the declarations call for, and binds the right parts of the path, in
   whatever order the routes were declared and however the tree was split: a
   literal beats a parameter beats a catch-all at the first difference, with
   back-tracking, and the last of two equal declarations wins. *)
TreeMatchesDeclarations ==
    built =>
        \A m \in TreeMethods, raw \in Paths :
            LET path  == matchPath(raw)
                found == Lookup(m, path)
                i     == Winner(m, path)
            IN  /\ found.h = IF i = 0 THEN NoHandler ELSE Compile(seen, i)
                /\ i > 0 => Values(found.caps) \in RouteBindings(i, path)

(* Every answer is the right one: a route is reached through its own method,
   or by HEAD through GET; 404 only if no method has a route for the path; the
   Allow set of a 405 or an OPTIONS answer is exactly those that have. *)
AnswersRight ==
    built =>
        \A m \in Methods, raw \in Paths :
            LET path   == matchPath(raw)
                reply  == HandleRequest(m, raw)
                have   == {q \in TreeMethods : Matching(q, path) # {}}
                headed == m \notin have /\ m = "HEAD" /\ "GET" \in have
            IN  /\ reply.status = "handled" <=> m \in have \/ headed
                /\ m \in have => reply.h.route = Winner(m, path)
                /\ headed => reply.h.route = Winner("GET", path)
                /\ reply.status = "404" <=> have = {}
                /\ reply.status \in {"405", "204"} =>
                     reply.allow = have \cup {"OPTIONS"}

(* The middleware of its groups and its own that a route should run: what was
   declared, but static files are served without the middleware of the group
   that declares them (group.go:54-56). *)
DeclaredChain(d) == IF d.via = "groupStatic" THEN <<>> ELSE d.chain

(* The middleware that the router and the groups hand to addRoute is what the
   declarations say: App.Group and Group.Group lose none and keep the order. *)
ChainsDeclared ==
    \A d \in Declarable : d.via # "groupStatic" => RouteMws(d) = d.chain

(* Whatever the order of the declarations before Build, every request that
   reaches a route runs through all global middleware first and through auth
   unless that very route is NoAuth ("Use may be called after routes have been
   declared; the middleware still applies to them", router.go:92-93), then
   through that of its groups from the outermost in, then its own, of which a
   static route has neither; a request that reaches none runs through the
   global middleware alone, "so a rejected request still gets CORS and security
   headers" (router.go:199-200).  What is declared after Build changes no
   request. *)
ChainComplete ==
    built =>
        \A m \in Methods, raw \in Paths :
            LET reply == HandleRequest(m, raw)
            IN  reply.h.chain =
                    IF reply.status # "handled" THEN seen.middlewares
                    ELSE LET e == seen.entries[reply.h.route]
                         IN  seen.middlewares
                             \o (IF seen.auth /\ ~e.noAuth THEN <<"auth">> ELSE <<>>)
                             \o DeclaredChain(e.decl)

=============================================================================
