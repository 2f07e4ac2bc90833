-------------------------------- MODULE Cookies --------------------------------
(***************************************************************************)
(* The cookie of an account: how an import finds it in what the user       *)
(* pasted (import_parse.rs), what the import demands of it (api.rs), and   *)
(* the refresh token that is read from it and put into it (refresh.rs).    *)
(*                                                                         *)
(* A cookie is a sequence of pairs.  The value of the pair auth0 (named    *)
(* sb-auth-auth-token.0) is the refresh token in it, NoToken when it       *)
(* decodes and holds none, Undecodable when it does not decode; no other   *)
(* value matters.  A piece is a pair, or text that is none.                *)
(*                                                                         *)
(* What is pasted is a sequence of groups of pieces: the entries of a HAR  *)
(* file, the one array of a JSON export, the one group of the lines of a   *)
(* cookie jar or of a header, the quoted parts of a curl command.          *)
(***************************************************************************)
EXTENDS Integers, Sequences, SequencesExt

CONSTANTS NoToken, Undecodable

Auth    == {"auth0", "auth1"}
NotPair == {"nameless", "text"}  \* "=v" or a name left empty; no "=" at all

(* What the writer of a header put before it; only "Cookie:" is known.       *)
HeaderPrefixes == {"none", "Cookie:", "cookie:"}

-------------------------------------------------------------------------------
(* import_parse.rs *)

(* What is left, in order, when all of some names are dropped. *)
Without(pieces, names) ==
    LET kept[i \in 0..Len(pieces)] ==
            IF i = 0 THEN <<>>
            ELSE IF pieces[i].name \in names THEN kept[i - 1]
                 ELSE Append(kept[i - 1], pieces[i])
    IN  kept[Len(pieces)]

(* join_pairs, and normalize_cookie_header after its trimming. *)
Pairs(pieces) == Without(pieces, NotPair)

(* normalize_cookie_header: an unknown prefix stays, as a part of the first   *)
(* pair's name.                                                              *)
Header(prefix, pieces) ==
    Pairs(IF prefix = "cookie:" /\ pieces # <<>>
          THEN [pieces EXCEPT ![1].name = "prefixed"] ELSE pieces)

(* Text with "=", and with ";" or the name of a login. *)
LikeCookie(pieces) ==
    /\ Pairs(pieces) # <<>>
    /\ Len(pieces) > 1 \/ \E i \in DOMAIN pieces : pieces[i].name \in Auth

(* The first of some positions, or none. *)
NoPart     == 0
First(hits) == IF hits = {} THEN NoPart ELSE Min(hits)

(* Mutant of Fragment: any quoted part with a pair is taken for the cookie.   *)
FragmentWithPair(groups) ==
    LET named  == {i \in DOMAIN groups : groups[i].prefix = "Cookie:"}
        likely == {i \in DOMAIN groups : Pairs(groups[i].pieces) # <<>>}
    IN  First(IF named # {} THEN named ELSE likely)

(* try_curl_command: the quoted part that is taken for the cookie. *)
Fragment(groups) ==
    LET named  == {i \in DOMAIN groups : groups[i].prefix = "Cookie:"}
        likely == {i \in DOMAIN groups : LikeCookie(groups[i].pieces)}
    IN  First(IF named # {} THEN named ELSE likely)

(* try_har_or_json, try_netscape: all pairs of all groups, in order. *)
AllPieces(groups) == FlattenSeq([i \in DOMAIN groups |-> groups[i].pieces])
Joined(form, groups) ==
    IF form \in {"har", "json", "jar"} THEN Pairs(AllPieces(groups)) ELSE <<>>

(* try_curl_command, for a text that has quoted parts. *)
Quoted(form, groups) ==
    LET found == IF form = "curl" THEN Fragment(groups) ELSE NoPart
    IN  IF found = NoPart THEN <<>>
        ELSE Header(groups[found].prefix, groups[found].pieces)

(* The raw text read as a header.  A command in which no part looked like a   *)
(* cookie is cut at its semicolons: what begins with "curl " is dropped, and  *)
(* the pairs after that have unknown names and count as one.                  *)
RawHeader(form, groups) ==
    IF form = "header" THEN Header(groups[1].prefix, groups[1].pieces)
    ELSE IF /\ form = "curl"
            /\ \E i, j \in DOMAIN groups : /\ i < j
                                           /\ Len(groups[i].pieces) > 1
                                           /\ Pairs(groups[j].pieces) # <<>>
         THEN <<[name |-> "prefixed", value |-> NoToken]>>
         ELSE <<>>

(* extract_cookie: the first attempt that finds a pair, the last in any case. *)
Extract(form, groups) ==
    IF Joined(form, groups) # <<>> THEN Joined(form, groups)
    ELSE IF Quoted(form, groups) # <<>> THEN Quoted(form, groups)
    ELSE RawHeader(form, groups)

-------------------------------------------------------------------------------
(* refresh.rs *)

(* decode_auth0, refresh_token_from_cookie: of the first auth0 that decodes.  *)
RefreshToken(cookie) ==
    LET decoded == {i \in DOMAIN cookie :
                      cookie[i].name = "auth0" /\ cookie[i].value # Undecodable}
    IN  IF decoded = {} THEN NoToken ELSE cookie[Min(decoded)].value

(* Mutant of Rebuild: the new login is added, the old one stays. *)
RebuildAdds(cookie, token) ==
    Append(Without(cookie, {"auth1"}), [name |-> "auth0", value |-> token])

(* rebuild_cookie: auth0 and auth1 go, the new auth0 comes last. *)
Rebuild(cookie, token) ==
    Append(Without(cookie, Auth), [name |-> "auth0", value |-> token])

-------------------------------------------------------------------------------
(* handle_tokens_import, analyze_cookie: what is admitted to the pool. *)
Admitted(cookie, allowPartial) ==
    /\ \E i \in DOMAIN cookie : cookie[i].name = "auth0"
    /\ RefreshToken(cookie) # NoToken \/ allowPartial
===============================================================================
