------------------------------ MODULE Algorithms ------------------------------
(***************************************************************************)
(* The pure parts of the gateway and what is asked of them: pick over a    *)
(* pool that grows, resolve over the catalogue, and the way of a cookie    *)
(* from the browser to the pool.                                           *)
(***************************************************************************)
EXTENDS Selection, ModelRegistry, Cookies

CONSTANTS
    Scores, Lasts,  \* healths, and times of last use
    MaxLen,         \* bound: credentials
    MaxPairs,       \* bound: pairs of a cookie
    Tokens

ASSUME AlgorithmsAssumption ==
    /\ Scores \subseteq Int /\ Lasts \subseteq Int
    /\ Undecodable \notin Tokens
    /\ NoToken \notin Tokens \cup {Undecodable}

VARIABLES pool, asked, browser, pasted

vars == <<pool, asked, browser, pasted>>

Nothing == [form |-> "nothing", groups |-> <<>>]
NotAsked == [name |-> NoName, now |-> 0]

Init ==
    /\ pool = <<>>
    /\ asked = NotAsked
    /\ browser = <<>>
    /\ pasted = Nothing

(* Another credential joins the pool. *)
Grow ==
    /\ asked = NotAsked /\ browser = <<>>
    /\ Len(pool) < MaxLen
    /\ \E s \in Scores, l \in Lasts, c \in BOOLEAN :
          pool' = Append(pool, [score |-> s, last |-> l, cooling |-> c])
    /\ UNCHANGED <<asked, browser, pasted>>

(* A client asks for a model: any provider, none, an unknown one; any surface *)
(* or an unknown one; before, at or after the end of the free window.         *)
Asked ==
    [provider : Range(SurfaceProvider) \cup {NoProvider, "unknown"},
     surface  : DOMAIN SurfaceProvider \cup {"unknown"},
     free     : BOOLEAN] \cup {NoName}

Ask ==
    /\ pool = <<>> /\ asked = NotAsked /\ browser = <<>>
    /\ \E name \in Asked, now \in 0..2 : asked' = [name |-> name, now |-> now]
    /\ UNCHANGED <<pool, browser, pasted>>

(* The browser sets a cookie. *)
SetCookie ==
    /\ pool = <<>> /\ asked = NotAsked /\ pasted = Nothing
    /\ Len(browser) < MaxPairs
    /\ \E name \in Auth \cup {"th_sid", "other"},
          value \in Tokens \cup {NoToken, Undecodable} :
          /\ name # "auth0" => value = NoToken
          /\ browser' = Append(browser, [name |-> name, value |-> value])
    /\ UNCHANGED <<pool, asked, pasted>>

Text  == [name |-> "text", value |-> NoToken]
Other == [name |-> "other", value |-> NoToken]
Empty == [name |-> "nameless", value |-> NoToken]
Part(prefix, pieces) == [prefix |-> prefix, pieces |-> pieces]

(* What comes before the cookie in a curl command: the URL, with or without a *)
(* query, and a header with parameters (accept-language: zh;q=0.9).           *)
Url        == Part("none", <<Text>>)
UrlQuery   == Part("none", <<Other>>)
Parameters == Part("none", <<Text, Other>>)

(* The ways to write a cookie down that README:53-56 lists; a HAR file has it *)
(* once per request.                                                         *)
Writings(cookie) ==
    [form : {"har"}, groups : {<<Part("none", cookie), Part("none", cookie)>>}] \cup
    [form : {"har", "json", "jar"},
     groups : {<<Part("none", cookie)>>, <<Part("none", <<Empty>>), Part("none", cookie)>>}]
    \cup [form : {"jar"}, groups : {<<Part("none", <<Text>> \o cookie)>>}]
    \cup [form : {"header"}, groups : {<<Part(p, cookie)>> : p \in HeaderPrefixes}]
    \cup [form : {"curl"},
          groups : {before \o <<Part(p, cookie)>> :
                      before \in {<<Url>>, <<UrlQuery>>, <<UrlQuery, Parameters>>},
                      p \in HeaderPrefixes}]

Paste ==
    /\ browser # <<>> /\ pasted = Nothing
    /\ pasted' \in Writings(browser)
    /\ UNCHANGED <<pool, asked, browser>>

Next == Grow \/ Ask \/ SetCookie \/ Paste

Spec == Init /\ [][Next]_vars

-------------------------------------------------------------------------------
(* Selection *)

Chosen == Pick(pool)
Warm   == {i \in DOMAIN pool : ~pool[i].cooling}
Fit    == {i \in Warm : pool[i].score >= LowHealth}
(* The group the choice is made from. *)
Group  == IF Fit # {} THEN Fit ELSE Warm

(* pick finds a credential exactly when one is not cooling, however low its   *)
(* health (the fallback pool of web_pool.rs), and prefers the healthy ones.   *)
PickFromTheRightGroup ==
    /\ Chosen = NoOne <=> Group = {}
    /\ Chosen # NoOne => Chosen \in Group

(* The tolerance is not transitive, so the one pass may settle for less than  *)
(* the best; never for less than one tolerance per credential of the group.   *)
NearlyTheHealthiest ==
    \A i \in Group : pool[i].score - pool[Chosen].score <= Tolerance * Len(pool)

(* Among credentials of the same health the one used longest ago is chosen,   *)
(* so equal accounts take turns (web_pool.rs:124).  Of the same health are    *)
(* those near the chosen one, if they are near each other and near no other.  *)
LongestUnusedOfEquals ==
    LET close == {i \in Group : Near(pool[Chosen], pool[i])} IN
    (\A i \in close, j \in Group : Near(pool[i], pool[j]) <=> j \in close)
        => \A i \in close : pool[Chosen].last <= pool[i].last

-------------------------------------------------------------------------------
(* Models *)

Served == Resolve(asked.name, asked.now)

(* Whatever is asked for and whenever, what is asked of the upstream is a     *)
(* model of the catalogue whose free window has not ended (README:222).       *)
ResolvedIsServed ==
    /\ Served \in Catalogue
    /\ Served.free /\ Served.surface \in DOMAIN FreeUntil
          => asked.now <= FreeUntil[Served.surface]

(* A client is served a paid model only if it named it in full, or named the  *)
(* surface of one that has no free route; never because a free window ended   *)
(* or a name is unknown (models.rs, normalize and resolve).                   *)
NeverPaidUnasked ==
    ~Served.free =>
        \/ asked.name = Served
        \/ /\ asked.name = Name(NoProvider, Served.surface, FALSE)
           /\ Served.surface \notin ToSet(FreeSurfaces)

(* The bare surface, the surface with ":free" and the full id of a free route *)
(* are names of one model, so threads and permits do not depend on which one  *)
(* a client uses.                                                            *)
SpellingsAgree ==
    asked.name \in [provider : {NoProvider}, surface : ToSet(FreeSurfaces), free : BOOLEAN]
        => Served = Resolve(UpstreamId(asked.name.surface, TRUE), asked.now)

-------------------------------------------------------------------------------
(* Cookies *)

Imported == Extract(pasted.form, pasted.groups)

(* The pasted text is one import_parse.rs misreads: the prefix in lower case, *)
(* as browsers show it, or before the argument of curl -b another header that *)
(* has parameters.                                                           *)
Misread ==
    \E i \in DOMAIN pasted.groups :
        \/ pasted.groups[i].prefix = "cookie:"
        \/ /\ pasted.form = "curl"
           /\ pasted.groups[i] = Parameters
           /\ \A j \in DOMAIN pasted.groups : pasted.groups[j].prefix # "Cookie:"

(* Whichever way a cookie was written down, unless it is misread, it is       *)
(* admitted and refreshed alike; and with the same pairs, so that add_raw     *)
(* knows it again, except that a HAR file repeats them (README:53-56).        *)
FormsAgree ==
    pasted # Nothing /\ ~Misread /\ Admitted(browser, TRUE) =>
        /\ Admitted(Imported, TRUE)
        /\ RefreshToken(Imported) = RefreshToken(browser)
        /\ pasted.form # "har" => Imported = browser

(* However often an account is refreshed, its next refresh uses the newest    *)
(* token, its cookie does not grow, and what it holds beside the login is     *)
(* kept in order (refresh.rs).                                               *)
RefreshGoesOn ==
    Admitted(browser, FALSE) => \A t, u \in Tokens :
        LET once   == Rebuild(browser, t)
            others == {i \in DOMAIN browser : browser[i].name \notin Auth}
        IN
        /\ RefreshToken(once) = t
        /\ Rebuild(once, u) = Rebuild(browser, u)
        /\ Len(once) = Cardinality(others) + 1
        /\ \A i \in others : once[Cardinality({j \in others : j <= i})] = browser[i]
===============================================================================
