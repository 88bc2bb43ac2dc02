----------------------------- MODULE WebGateway -----------------------------
(* One tab that browses through the web gateway, while other tabs of the same *)
(* gateway do, beside the same tab browsing directly.  An address is the      *)
(* sequence of its segments: /__proxy__/https/h/a/ is <<"__proxy__", "https", *)
(* "h", "a", "">>.  Queries, headers and the text around a link are left out; *)
(* what the gateway does to the links of a page, to a Location header and to  *)
(* a request that has lost its prefix is what the model is about.             *)
EXTENDS Naturals, Sequences, FiniteSets, SequencesExt

CONSTANTS Words,       \* the segments of all addresses
          Hosts,
          RootPaths,   \* the paths sites use from their root
          RelPaths,    \* the relative paths they use
          OwnBases,    \* the bases that pages have of their own
          MaxBody,     \* MAX_RESPONSE_BYTES
          MaxPath,     \* bound: relative links are followed on paths up to this
          None

Schemes == {"http", "https"}
Sites == Schemes \X Hosts
Many == <<"many", "many">>
Prefix == "__proxy__"

(* The segments with a meaning of their own; a path to a directory ends in    *)
(* the empty one.                                                             *)
Here == "."
Up == ".."
Blank == ""

(* Only the last segment of a path is empty, as that of a directory is.       *)
Paths == {p \in Seq(Words) : Len(p) > 0 /\ \A i \in 1..Len(p) - 1 : p[i] # Blank}

ASSUME GatewayAssumption ==
  /\ MaxBody \in Nat \ {0} /\ MaxPath \in Nat
  /\ {Here, Up, Blank, Prefix} \cup Schemes \cup Hosts \subseteq Words
  /\ Hosts \cap {Here, Up, Blank} = {}
  /\ RootPaths \subseteq Paths /\ RelPaths \subseteq Paths
  /\ None \notin (Schemes \X Words) \cup {Many}

VARIABLES stage,   \* what the tab's connection is doing
          ask,     \* the address it requests
          ref,     \* the Referer of the request
          addr,    \* the page the tab shows while idle, if it is one with links
          base,    \* what its links are resolved against
          want,    \* where the tab would be, had it browsed directly
          how,     \* what the way here went by, since an address was typed
          last,    \* last_upstream
          only,    \* the one site that gave pages so far, or Many (history)
          relay    \* how much of the last body was passed on

gwVars == <<stage, ask, ref, addr, base, want, how, last, only, relay>>
askVars == <<ask, ref, want, how>>
pageVars == <<addr, base>>
siteVars == <<last, only>>

Nothing == <<"none", "whole">>

GatewayInit ==
  /\ stage = "idle" /\ ask = <<>> /\ ref = None /\ addr = None /\ base = None
  /\ want = None /\ how = "straight"
  /\ last = None /\ only = None
  /\ relay = Nothing

-----------------------------------------------------------------------------
(* Links, and where a browser takes them: RFC 3986.                           *)
Link(form, scheme, host, path) ==
  [form |-> form, scheme |-> scheme, host |-> host, path |-> path]
Links ==
       {Link("full", s, h, p) : s \in Schemes, h \in Hosts, p \in RootPaths}
  \cup {Link("host", None, h, p) : h \in Hosts, p \in RootPaths}
  \cup {Link("root", None, None, p) : p \in RootPaths}
  \cup {Link("rel", None, None, p) : p \in RelPaths}

DotStep(acc, s, drops) ==
  CASE s \in drops -> acc
    [] s = Up      -> IF acc = <<>> THEN acc ELSE Front(acc)
    [] OTHER       -> Append(acc, s)

(* A path is walked from its first segment to its last.                       *)
Walked(path, drops) ==
  LET taken[i \in 0..Len(path)] ==
        IF i = 0 THEN <<>> ELSE DotStep(taken[i - 1], path[i], drops)
  IN taken
Walk(path, drops) == Walked(path, drops)[Len(path)]

Dots(path) ==
  LET kept == Walk(path, {Here})
  IN IF Last(path) \in {Here, Up} THEN Append(kept, Blank) ELSE kept

(* A path that goes up from the root, where a browser stays.                  *)
Climbs(path) == \E i \in 1..Len(path) : path[i] = Up /\ Walked(path, {Here})[i - 1] = <<>>

(* No site has pages below the gateway's prefix.                              *)
ASSUME PrefixAssumption ==
  /\ \A p \in RootPaths : Dots(p)[1] # Prefix
  /\ OwnBases \subseteq Links

Url(scheme, host, path) == [scheme |-> scheme, host |-> host, path |-> path]

(* What a link says, next to the address u, and where it leads from there.    *)
Target(l, u) ==
  CASE l.form = "full" -> Url(l.scheme, l.host, l.path)
    [] l.form = "host" -> Url(u.scheme, l.host, l.path)
    [] l.form = "root" -> Url(u.scheme, u.host, l.path)
    [] l.form = "rel"  -> Url(u.scheme, u.host, Front(u.path) \o l.path)
Resolve(l, u) ==
  LET to == Target(l, u) IN Url(to.scheme, to.host, Dots(to.path))

(* The gateway's addresses, and what it reads in one.                         *)
Proxied(u) == <<Prefix, u.scheme, u.host>> \o u.path
IsProxied(a) == Len(a) > 0 /\ a[1] = Prefix
WellFormed(a) == IsProxied(a) /\ Len(a) >= 3 /\ a[2] \in Schemes /\ a[3] # Blank
Parse(a) == Url(a[2], a[3], IF Len(a) = 3 THEN <<Blank>> ELSE SubSeq(a, 4, Len(a)))

-----------------------------------------------------------------------------
(* rewrite_html.  Where a link stands in the page: in one of the attributes   *)
(* it knows, in url( ) with or without quotes, first or later in a srcset, in *)
(* a meta refresh, or in some other string, as those of scripts are.          *)
Places == {"attr", "css", "cssQuoted", "set", "setLater", "meta", "string"}

(* A link that was rewritten is an address of the gateway.                    *)
At(a) == [form |-> "at", to |-> a]
Token(l, u) == IF l.form = "rel" THEN l ELSE At(Proxied(Target(l, u)))

(* The replacements of absolute and protocol-relative links after a quote or  *)
(* a parenthesis.                                                             *)
AbsolutePass(l, place, u) ==
  IF l.form \in {"full", "host"} /\ place \in {"attr", "css", "cssQuoted", "set", "string"}
  THEN Token(l, u) ELSE l

(* Mutant: what has been rewritten starts with a slash, too.                  *)
RootPassAgain(l, place, u) ==
  IF place \in {"attr", "css", "cssQuoted"}
  THEN IF l.form = "root" THEN Token(l, u)
       ELSE IF l.form = "at" THEN At(<<Prefix, u.scheme, u.host>> \o l.to) ELSE l
  ELSE l

(* replace_root_relative, which leaves an address of the gateway alone.       *)
RootPass(l, place, u) ==
  IF l.form = "root" /\ place \in {"attr", "css", "cssQuoted"} THEN Token(l, u) ELSE l

(* rewrite_srcset_attrs, rewrite_meta_refresh: whatever is left there.        *)
TokenPass(l, place, u) ==
  IF l.form # "at" /\ place \in {"set", "setLater", "meta"} THEN Token(l, u) ELSE l

RewriteHtml(l, place, u) ==
  TokenPass(RootPass(AbsolutePass(l, place, u), place, u), place, u)

(* What the browser requests for a link: a path from the root has no prefix,  *)
(* a relative one is resolved against an address, and dots are taken away     *)
(* from the whole of it, the gateway's prefix included.                       *)
Followed(out, against) ==
  CASE out.form = "at"   -> Dots(out.to)
    [] out.form = "root" -> Dots(out.path)
    [] out.form = "rel"  -> Dots(Front(against) \o out.path)
Requested(l, place, u, against) == Followed(RewriteHtml(l, place, u), against)

(* inject_base: a page gets a base, the root of its site, unless it has one   *)
(* of its own, which is rewritten as any other link.  (One that names no      *)
(* address is one to the page's own directory.)                               *)
BaseOf(own, a, w) ==
  IF own = None THEN [via |-> SubSeq(a, 1, 3) \o <<Blank>>, direct |-> w]
  ELSE [via |-> Requested(own, "attr", Parse(a), a), direct |-> Resolve(own, w)]

(* resolve_relative_path: empty segments go, the last one too.                *)
ResolveRelative(path, rel) ==
  LET kept == Walk(Front(path) \o rel, {Here, Blank})
  IN IF kept = <<>> THEN <<Blank>> ELSE kept

(* Mutant: //host is taken for a path from the root.                          *)
LocationAsPath(l, u) ==
  CASE l.form = "full" -> Proxied(Target(l, u))
    [] l.form = "host" -> Proxied(Url(u.scheme, u.host, <<Blank, l.host>> \o l.path))
    [] l.form = "root" -> Proxied(Target(l, u))
    [] l.form = "rel"  -> Proxied(Url(u.scheme, u.host, ResolveRelative(u.path, l.path)))

(* rewrite_location, rewrite_refresh_header.                                  *)
RewriteLocation(l, u) ==
  IF l.form = "rel" THEN Proxied(Url(u.scheme, u.host, ResolveRelative(u.path, l.path)))
  ELSE Proxied(Target(l, u))

-----------------------------------------------------------------------------
(* The bodies.  Of a body of some chunks and an empty last one, or of some     *)
(* length, the upstream sends the first few and then closes the connection.   *)
Chunkings == UNION {[1..n -> 1..MaxBody] : n \in 0..2}
Capped(n) == IF n > MaxBody THEN MaxBody ELSE n
First(chunks, n) == FoldLeft(LAMBDA a, b : a + b, 0, SubSeq(chunks, 1, IF n > Len(chunks) THEN Len(chunks) ELSE n))

(* Mutant: a connection that closes ends the body.                            *)
ChunkedToEof(chunks, n) == Capped(First(chunks, n))

(* read_body_chunked: the cap is looked at after each chunk; with the         *)
(* connection closed before the last chunk or the cap, there is no response.  *)
ReadChunked(chunks, n) ==
  IF First(chunks, n) >= MaxBody THEN MaxBody
  ELSE IF n > Len(chunks) THEN First(chunks, n) ELSE None

(* read_body_fixed, read_body_to_eof: what there is, up to the cap.           *)
ReadFixed(length, n) == IF n < Capped(length) THEN n ELSE Capped(length)
ReadToEof(n) == Capped(n)

Verdict(got, all) == IF got = all THEN "whole" ELSE IF got = MaxBody THEN "capped" ELSE "short"

(* fetch_upstream: what is relayed for one body, or that nothing is.  A body  *)
(* with no framing is as long as what was sent.                               *)
OfChunks(chunks, n) ==
  LET got == ReadChunked(chunks, n)
  IN <<"chunked", IF got = None THEN "failed" ELSE Verdict(got, First(chunks, Len(chunks)))>>
InChunks == UNION {{OfChunks(c, n) : n \in 0..Len(c) + 1} : c \in Chunkings}
OfLength ==
  {<<"length", Verdict(ReadFixed(all, n), all)>> : all \in 0..MaxBody + 1, n \in 0..MaxBody + 1}
ToClose == {<<"close", Verdict(ReadToEof(n), n)>> : n \in 0..MaxBody + 1}

Fetched == InChunks \cup OfLength \cup ToClose

-----------------------------------------------------------------------------
(* Where a relative link, a link that is lost or a wrong guess led is not     *)
(* gone on from.                                                              *)
Astray == {"base", "lost"}

(* What is left of the way here after a link that names its own path.  A page *)
(* with a base of another site loses the links that name no site; a path that *)
(* goes up from the root climbs out of the gateway's prefix.                  *)
Named(l, from) ==
  IF Climbs(l.path) \/ (l.form # "full" /\ <<from.scheme, from.host>> # <<want.scheme, want.host>>)
  THEN "lost"
  ELSE IF how = "slash" THEN "straight" ELSE how

(* An address is typed, or taken from the list.                               *)
Type(u) ==
  /\ stage = "idle"
  /\ stage' = "sent" /\ ask' = Proxied(u) /\ ref' = None
  /\ want' = u /\ how' = "straight"
  /\ addr' = None /\ base' = None /\ relay' = Nothing
  /\ UNCHANGED siteVars

(* A link of the page is followed, with or without a Referer: frames that are *)
(* sandboxed send none.                                                       *)
Follow(l, place, r) ==
  /\ stage = "idle" /\ addr # None /\ how \notin Astray
  /\ l.form = "rel" => Len(base.direct.path) <= MaxPath
  /\ stage' = "sent" /\ ask' = Requested(l, place, Parse(addr), base.via) /\ ref' = r
  /\ want' = Resolve(l, base.direct)
  /\ how' = IF l.form = "rel" THEN "base" ELSE Named(l, base.direct)
  /\ addr' = None /\ base' = None /\ relay' = Nothing
  /\ UNCHANGED siteVars

(* handle_conn refuses a request with a chunked or too large a body, and one  *)
(* whose address it cannot read.                                              *)
Fails ==
  /\ stage' = "idle" /\ addr' = None /\ base' = None
  /\ ask' = <<>> /\ ref' = None /\ want' = None /\ how' = "straight"
  /\ UNCHANGED <<siteVars, relay>>

Refuse == stage = "sent" /\ Fails

(* recover_proxy_redirect: the site is that of the Referer, if there is one,  *)
(* which is an address of the gateway too; the browser asks again there.      *)
RecoverByReferer ==
  /\ stage = "sent" /\ ~IsProxied(ask) /\ ref # None
  /\ ask' = SubSeq(ref, 1, 3) \o ask
  /\ UNCHANGED <<stage, ref, pageVars, want, how, siteVars, relay>>

(* Mutant: the site that gave a page last is preferred to the Referer.        *)
RecoverByLast ==
  /\ stage = "sent" /\ ~IsProxied(ask) /\ last # None
  /\ ask' = <<Prefix, last[1], last[2]>> \o ask
  /\ UNCHANGED <<stage, ref, pageVars, want, how, siteVars, relay>>

(* fallback_proxy_redirect: without one, that of the last page.               *)
Fallback ==
  /\ stage = "sent" /\ ~IsProxied(ask) /\ ref = None
  /\ IF last = None THEN Fails
     ELSE /\ ask' = <<Prefix, last[1], last[2]>> \o ask
          /\ how' = IF how = "straight" THEN "guess" ELSE "lost"
          /\ UNCHANGED <<stage, ref, pageVars, want, siteVars, relay>>

Fetch ==
  /\ stage = "sent" /\ IsProxied(ask)
  /\ IF WellFormed(ask)
     THEN stage' = "fetch" /\ ref' = None /\ UNCHANGED <<ask, want, how, pageVars, siteVars, relay>>
     ELSE Fails

(* The upstream does not answer, not in time, or breaks off: 502 or 504.      *)
Unreachable == stage = "fetch" /\ Fails

PageFrom(s) ==
  /\ last' = s
  /\ only' = IF only \in {None, s} THEN s ELSE Many

(* It answers with a page, the links of which are rewritten, ...              *)
AnswerPage(f, own) ==
  /\ stage = "fetch" /\ f[2] # "failed"
  /\ stage' = "idle" /\ addr' = ask /\ base' = BaseOf(own, ask, want) /\ relay' = f
  /\ PageFrom(<<Parse(ask).scheme, Parse(ask).host>>)
  /\ UNCHANGED askVars

(* ... with something else, ...                                               *)
AnswerOther(f) ==
  /\ stage = "fetch" /\ f[2] # "failed"
  /\ stage' = "idle" /\ relay' = f
  /\ ask' = <<>> /\ want' = None /\ how' = "straight"
  /\ UNCHANGED <<ref, pageVars, siteVars>>

(* ... or elsewhere, with a page or without one.  What the browser follows is *)
(* the rewritten Location.                                                    *)
AnswerRedirect(l, page) ==
  /\ stage = "fetch" /\ how \notin Astray
  /\ l.form = "rel" => Len(want.path) <= MaxPath
  /\ stage' = "sent" /\ ask' = Dots(RewriteLocation(l, Parse(ask)))
  /\ want' = Resolve(l, want)
  /\ how' = IF l.form # "rel" THEN Named(l, want)
            ELSE IF how = "straight" /\ Last(l.path) \in {Blank, Here, Up} THEN "slash" ELSE how
  /\ IF page THEN PageFrom(<<Parse(ask).scheme, Parse(ask).host>>) ELSE UNCHANGED siteVars
  /\ UNCHANGED <<ref, pageVars, relay>>

(* Another tab has loaded a page.                                             *)
OtherTab(s) ==
  /\ PageFrom(s)
  /\ UNCHANGED <<stage, askVars, pageVars, relay>>

GatewayNext ==
  \/ \E s \in Schemes, h \in Hosts, p \in RootPaths : Type(Url(s, h, Dots(p)))
  \/ \E l \in Links, place \in Places, r \in {addr, None} : Follow(l, place, r)
  \/ Refuse \/ RecoverByReferer \/ Fallback \/ Fetch \/ Unreachable
  \/ \E f \in Fetched : AnswerOther(f) \/ \E own \in OwnBases \cup {None} : AnswerPage(f, own)
  \/ \E l \in Links, page \in BOOLEAN : AnswerRedirect(l, page)
  \/ \E s \in Sites : OtherTab(s)

GatewaySpec == GatewayInit /\ [][GatewayNext]_gwVars

-----------------------------------------------------------------------------
SameSite == Parse(ask).scheme = want.scheme /\ Parse(ask).host = want.host
SamePath == Parse(ask).path = want.path

(* Along links, redirects and recovered requests the gateway fetches the      *)
(* site and the path that the browser would have gone to directly, whatever   *)
(* other tabs load meanwhile.  Lost are relative links, links that go up from *)
(* the root, and links without a site on pages that name another site as      *)
(* their base; a relative redirect to a directory keeps the site only, until  *)
(* the next link that names a path; and a request that has nothing to be      *)
(* recovered by is right as long as all pages, those of redirects included,   *)
(* came from one site.                                                        *)
LandsWhereMeant ==
  stage = "fetch" =>
    /\ how \in {"straight", "slash"} => SameSite
    /\ how = "straight" => SamePath
    /\ how = "guess" /\ only = <<want.scheme, want.host>> => SameSite

(* A body in chunks is passed on whole or cut at the cap, never shorter: the  *)
(* gateway gives it a length of its own, so that nobody could tell.           *)
ChunkedIsNeverShort == relay[1] = "chunked" => relay[2] # "short"

(* What the module's description says: relative links go through the gateway  *)
(* as the others do, to the page they mean.                                   *)
RelativeLinksLand == stage = "fetch" /\ how = "base" => SameSite
=============================================================================
