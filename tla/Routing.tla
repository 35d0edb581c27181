------------------------------ MODULE Routing ------------------------------
(***************************************************************************)
(* The route table: RouteTable, its routes, and RouteBuilder.  A path or   *)
(* a pattern is the sequence of the pieces between its slashes, so "/a/b"  *)
(* is <<"", "a", "b">>, "/a/" is <<"", "a", "">> and "/" is <<"", "">>.    *)
(* A piece of a pattern is text, a whole parameter "{name}", or malformed. *)
(* Registration holds the table's mutex and resolution a shared lock, so   *)
(* each is one step.                                                       *)
(***************************************************************************)
EXTENDS Naturals, Sequences, FiniteSets, SequencesExt

CONSTANTS
  Path,       \* the paths of static routes and of requests
  Pattern,    \* the patterns of dynamic routes
  Param,      \* the pieces that are a parameter
  Malformed,  \* the pieces parse_pattern rejects
  Rank,       \* the patterns' places in the order of strings
  Verb,       \* the methods of requests
  MaxRoutes   \* bound: the routes registered between two calls of clear

\* verb::unknown: the method of a route that matches any.
AnyVerb == "any"

ASSUME RoutingAssumption ==
  /\ Path \subseteq Seq(STRING) \ {<<>>} /\ Pattern \subseteq Seq(STRING) \ {<<>>}
  /\ Rank \in [Pattern -> Nat] /\ MaxRoutes \in Nat /\ AnyVerb \notin Verb

VARIABLES
  statics,   \* static_routes_, by normalized path
  dynamics,  \* dynamic_routes_
  routes     \* all_routes_

routeVars == <<statics, dynamics, routes>>

Kind  == {"static", "dynamic"}
Route == [kind : Kind, pattern : Seq(STRING), method : Verb \cup {AnyVerb}]

-----------------------------------------------------------------------------
(* Paths and patterns. *)

\* The empty path is the root, a leading slash is added, one trailing slash goes.
NormalizePath(path) ==
  LET rooted == IF Head(path) = "" THEN path ELSE <<"">> \o path
  IN  CASE path = <<"">> -> <<"", "">>
        [] path # <<"">> /\ Len(rooted) > 2 /\ Last(rooted) = "" -> Front(rooted)
        [] OTHER -> rooted

CountSegments(pattern) == Cardinality({i \in DOMAIN pattern : pattern[i] # ""})

ParamCount(pattern) == Cardinality({i \in DOMAIN pattern : pattern[i] \in Param})

\* parse_pattern throws on a parameter that is not closed or has no name.
Parses(pattern) == \A i \in DOMAIN pattern : pattern[i] \notin Malformed

\* What the regular expression of a pattern accepts: "([^/]+)" for a parameter.
RegexMatches(key, pattern) ==
  /\ Len(key) = Len(pattern)
  /\ \A i \in DOMAIN pattern :
       IF pattern[i] \in Param THEN key[i] # "" ELSE pattern[i] = key[i]

-----------------------------------------------------------------------------
(* Registration. *)

\* Static segments, of which a pattern has none when all are parameters.
Specificity(pattern) ==
  LET total == CountSegments(pattern) params == ParamCount(pattern)
  IN  IF total > params THEN total - params ELSE 0

\* The comparison given to std::sort.
Precedes(a, b) ==
  LET p == a.pattern q == b.pattern
  IN  \/ Specificity(p) > Specificity(q)
      \/ /\ Specificity(p) = Specificity(q) /\ CountSegments(p) > CountSegments(q)
      \/ /\ Specificity(p) = Specificity(q) /\ CountSegments(p) = CountSegments(q)
         /\ Rank[p] < Rank[q]

\* Every order std::sort may leave: it is not stable.
Sorted(list) ==
  {s \in {[i \in DOMAIN list |-> list[p[i]]] :
            p \in Bijection(DOMAIN list, DOMAIN list)} :
     \A i, j \in DOMAIN list : i < j => ~Precedes(s[j], s[i])}

\* A registration that does not sort.
Unsorted(list) == {list}

\* The orders dynamic_routes_ may be left in.
Resort(list) == Sorted(list)

\* A second route for the same path replaces the first, whatever its method.
AddStaticRoute(path, method) ==
  LET key == NormalizePath(path)
      route == [kind |-> "static", pattern |-> key, method |-> method]
  IN  /\ Len(routes) < MaxRoutes
      /\ statics' = [k \in DOMAIN statics \cup {key} |-> IF k = key THEN route ELSE statics[k]]
      /\ routes' = Append(routes, route)
      /\ UNCHANGED dynamics

\* The pattern is kept as it was given; one that does not parse throws.
AddDynamicRoute(pattern, method) ==
  LET route == [kind |-> "dynamic", pattern |-> pattern, method |-> method]
  IN  /\ Len(routes) < MaxRoutes /\ UNCHANGED statics
      /\ IF Parses(pattern)
         THEN /\ dynamics' \in Resort(Append(dynamics, route))
              /\ routes' = Append(routes, route)
         ELSE UNCHANGED <<dynamics, routes>>

Clear == routes # <<>> /\ statics' = <<>> /\ dynamics' = <<>> /\ routes' = <<>>

-----------------------------------------------------------------------------
(* Resolution. *)

MatchesMethod(route, method) == route.method \in {AnyVerb, method}

\* The routes consulted for a key: its static route or, only if there is none,
\* the first dynamic route that matches.
Candidate(key) ==
  IF key \in DOMAIN statics THEN {statics[key]}
  ELSE LET hits == {i \in DOMAIN dynamics : RegexMatches(key, dynamics[i].pattern)}
       IN  {dynamics[i] : i \in {h \in hits : \A g \in hits : h <= g}}

\* resolve_route_with_method: the route whose handler runs (none: NoRoute), and
\* the methods to put into Allow.
NoRoute == [kind |-> "none"]

\* A lookup that collects the methods of all routes that match.
ResolveCollects(path, method) ==
  LET key == NormalizePath(path)
      hit == {r \in Candidate(key) : MatchesMethod(r, method)}
      behind == {r \in Range(dynamics) : RegexMatches(key, r.pattern)}
  IN  [route |-> IF hit # {} THEN CHOOSE r \in hit : TRUE ELSE NoRoute,
       allowed |-> {r.method : r \in (Candidate(key) \cup behind) \ hit} \ {AnyVerb}]

Resolve(path, method) ==
  LET routeOf == Candidate(NormalizePath(path))
      hit == {r \in routeOf : MatchesMethod(r, method)}
  IN  [route |-> IF hit # {} THEN CHOOSE r \in hit : TRUE ELSE NoRoute,
       allowed |-> {r.method : r \in routeOf \ hit} \ {AnyVerb}]

\* resolve_route passes verb::unknown.
ResolveRoute(path) == Resolve(path, AnyVerb).route

-----------------------------------------------------------------------------
RoutingInit == statics = <<>> /\ dynamics = <<>> /\ routes = <<>>

RoutingNext ==
  \/ \E path \in Path, method \in Verb \cup {AnyVerb} : AddStaticRoute(path, method)
  \/ \E pattern \in Pattern, method \in Verb \cup {AnyVerb} : AddDynamicRoute(pattern, method)
  \/ Clear

RoutingTypeOK ==
  /\ \A key \in DOMAIN statics : statics[key] \in Route
  /\ dynamics \in Seq(Route) /\ routes \in Seq(Route)

-----------------------------------------------------------------------------
(* Properties, against the history of registrations in all_routes_. *)

\* The routes registered since the last clear() that fit a path.
Fits(path) ==
  {r \in Range(routes) :
     IF r.kind = "static" THEN r.pattern = NormalizePath(path)
     ELSE RegexMatches(NormalizePath(path), r.pattern)}

\* Resolution agrees with the documented order ("Tries static routes first (exact
\* normalized path). Then tries dynamic routes in specificity order"): one static
\* route of the path is used, whatever dynamic ones fit, without one a dynamic
\* route than which none that fits is more specific, and nothing only if nothing
\* fits.
ResolvesBest ==
  \A path \in Path :
    LET found == Candidate(NormalizePath(path))
        statically == {r \in Fits(path) : r.kind = "static"}
        best == {r \in Fits(path) : \A s \in Fits(path) : ~Precedes(s, r)}
    IN  IF Fits(path) = {} THEN found = {}
        ELSE /\ Cardinality(found) = 1
             /\ found \subseteq IF statically # {} THEN statically ELSE best

\* Example 10 registers GET and POST on "/api/users" and announces that both are
\* answered, "curl -s -X PUT ... (405 Method Not Allowed)": a method registered for
\* a path has a handler there.
MethodsAreKept ==
  \A path \in Path, method \in Verb :
    (\E r \in Fits(path) : r.kind = "static" /\ r.method = method) => Resolve(path, method).route # NoRoute

\* A method that a 405 response lists in Allow is answered by a handler, and a
\* path that some route fits never gets a 404.
AllowIsHonest ==
  \A path \in Path, method \in Verb :
    LET result == Resolve(path, method)
    IN  /\ \A other \in result.allowed : Resolve(path, other).route # NoRoute
        /\ Fits(path) # {} => result.route # NoRoute \/ result.allowed # {}
=============================================================================
