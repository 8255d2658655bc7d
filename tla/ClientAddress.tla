--------------------------- MODULE ClientAddress ---------------------------
(***************************************************************************)
(* Whose request it is: a request travels from its origin through reverse  *)
(* proxies, trusted ones or not, to the program, and the API firewall and  *)
(* the dashboard's check for local requests, which have a resolver each,   *)
(* work out from the peer and the forwarding headers who sent it.  The     *)
(* origin writes what it likes into those headers; a proxy appends the     *)
(* peer it sees.  (What forwards without a word, a tunnel, is an origin.)  *)
(*                                                                         *)
(* An address is a member of Hosts.  A header is the sequence of its       *)
(* entries, an entry that is no address is Garbage, and an absent header   *)
(* is the empty sequence.                                                  *)
(***************************************************************************)
EXTENDS Naturals, SequencesExt, FiniteSetsExt

CONSTANTS
    Hosts,          \* addresses
    TrustedProxies, \* those in firewall_trusted_proxy_cidrs
    Loopback,       \* those that are loopback addresses
    Garbage,        \* text that is not an address
    NoHost,         \* no address
    MaxForged,      \* bound: entries of a header the origin wrote
    MaxHops         \* bound: proxies on the way

ASSUME AddressAssumption ==
    /\ TrustedProxies \subseteq Hosts /\ Loopback \subseteq Hosts
    /\ Garbage \notin Hosts /\ NoHost \notin Hosts /\ Garbage # NoHost
    /\ MaxForged \in Nat /\ MaxHops \in Nat

VARIABLES
    origin,  \* the host that sent the request
    hops,    \* proxies it has passed
    trust,   \* firewall_trust_proxy_headers
    request, \* the request as the next host receives it
    client,  \* history: the last host on its way that is no trusted proxy, or
             \* the origin
    since    \* history: proxies it has passed since then, all of them trusted

addressVars == <<origin, hops, trust, request, client, since>>

Entry == Hosts \cup {Garbage}

\* forwardedFor is X-Forwarded-For, realIp the first of X-Real-IP,
\* True-Client-IP and CF-Connecting-IP, forwarded the for= items of Forwarded,
\* localName whether Host names a local host, actor whether the header of
\* dashboard_auth_proxy_header is there.
Request ==
    [peer : Hosts, forwardedFor : BoundedSeq(Entry, MaxForged + MaxHops),
     realIp : Entry \cup {NoHost}, forwarded : BoundedSeq(Entry, 1),
     localName : BOOLEAN, actor : BOOLEAN]

-----------------------------------------------------------------------------
\* The program's view of a request

Valid(entries) == \A i \in DOMAIN entries : entries[i] \in Hosts

\* _is_trusted_proxy_source of the peer, where headers are trusted at all.
BehindProxy(r) == trust /\ r.peer \in TrustedProxies

\* A mutated model: the header is read from the left.
FirstHop(r) == r.forwardedFor[1]

\* The walk of _resolve_client_ip_from_xff_chain, from the socket to the left:
\* the first hop that is no trusted proxy, or else the leftmost one.
WalkChain(r) ==
    LET chain == Append(r.forwardedFor, r.peer)
        untrusted == {i \in 2..Len(chain) : chain[i] \notin TrustedProxies}
    IN  IF untrusted = {} THEN chain[1] ELSE chain[Max(untrusted)]

\* resolve_connection_client_ip of the API firewall: a chain with an entry
\* that is no address is as good as none.
FirewallClient(r) ==
    IF BehindProxy(r) /\ r.forwardedFor # <<>> /\ Valid(r.forwardedFor)
    THEN WalkChain(r)
    ELSE r.peer

\* _resolve_forwarded_header_ip: the first for= of the header counts.
ForwardedHost(r) ==
    IF r.forwarded # <<>> /\ Valid(r.forwarded) THEN r.forwarded[1] ELSE NoHost

\* resolve_connection_client_ip of the dashboard.  Behind a proxy it never
\* falls back on the proxy's own address.
DashboardClient(r) ==
    CASE ~BehindProxy(r) -> r.peer
      [] BehindProxy(r) /\ r.forwardedFor # <<>> ->
            IF Valid(r.forwardedFor) THEN WalkChain(r) ELSE NoHost
      [] BehindProxy(r) /\ r.forwardedFor = <<>> /\ r.realIp # NoHost ->
            IF r.realIp \in Hosts THEN r.realIp ELSE NoHost
      [] OTHER -> ForwardedHost(r)

\* _has_forwarded_client_ip_hint
Hinted(r) == r.forwardedFor # <<>> \/ r.realIp # NoHost \/ r.forwarded # <<>>

\* A mutated model: forwarding headers make no difference.
LocalUnhinted(r) == DashboardClient(r) \in Loopback /\ r.localName

\* is_local_request: a loopback client that asks for a local host name, and
\* that came with a forwarding header if and only if those are trusted.
IsLocalRequest(r) ==
    DashboardClient(r) \in Loopback /\ r.localName /\ (Hinted(r) <=> trust)

\* A mutated model: the header passes.
Unsanitized(r) == r

\* DashboardAuthProxyHeaderSanitizerMiddleware removes the actor of anybody
\* but a trusted proxy before the handlers see the request.  (It is only on in
\* the mode in which the handlers read the header.)
Sanitized(r) == [r EXCEPT !.actor = r.actor /\ BehindProxy(r)]

-----------------------------------------------------------------------------
\* The way to the program

AddressInit ==
    /\ origin \in Hosts
    /\ hops = 0
    /\ trust \in BOOLEAN
    /\ request \in {r \in Request : r.peer = origin /\ Len(r.forwardedFor) <= MaxForged}
    /\ client = origin /\ since = 0

\* A proxy, which the program may or may not have been told to trust, passes
\* the request on: it appends the peer it sees, and the actor is its own word.
Hop(p) ==
    /\ hops < MaxHops
    /\ hops' = hops + 1
    /\ \E actor \in BOOLEAN :
        request' = [request EXCEPT !.peer = p, !.actor = actor,
                        !.forwardedFor = Append(@, request.peer)]
    /\ IF p \in TrustedProxies
       THEN since' = since + 1 /\ client' = client
       ELSE since' = 0 /\ client' = p
    /\ UNCHANGED <<origin, trust>>

AddressNext == \E p \in Hosts : Hop(p)

-----------------------------------------------------------------------------
\* Properties

\* Where headers are trusted, both resolvers name the last host on the way
\* that is no trusted proxy, which is the origin where all proxies are
\* trusted, whatever the origin wrote into the headers and however many
\* proxies came after.  One exception each: for a malformed chain the firewall
\* names the last proxy and the dashboard nobody.
ClientIsFound ==
    (trust /\ client \notin TrustedProxies) =>
        IF since > 0 /\ ~Valid(request.forwardedFor)
        THEN FirewallClient(request) = request.peer /\ DashboardClient(request) = NoHost
        ELSE FirewallClient(request) = client /\ DashboardClient(request) = client

\* A request that is taken for a local one (which the dashboard lets in
\* without a password) comes from the same machine, whatever its headers say
\* and whatever proxies it passed.  Where headers are trusted the program can
\* only know of its client: a proxy on the same machine that it was not told
\* to trust makes local what it passes on, and a trusted proxy may say of
\* itself what it likes.
LocalIsLocal ==
    IsLocalRequest(request) =>
        \/ origin \in Loopback
        \/ trust /\ client \in Loopback \cup TrustedProxies

\* The actor the handlers see is the word of a trusted proxy, never of the
\* origin or of another proxy.
ActorFromProxy ==
    Sanitized(request).actor => trust /\ (since > 0 \/ client \in TrustedProxies)

=============================================================================
