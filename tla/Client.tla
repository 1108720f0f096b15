------------------------------- MODULE Client -------------------------------
(***************************************************************************)
(* What the API client makes of a response, endpoint by endpoint: a result,*)
(* a BrightDataAPIError with a status, or another exception.  A response   *)
(* without the JSON object or list that an endpoint is documented to send  *)
(* is an error to some parsers, an empty reply to others, and more than    *)
(* one of them trips over it.                                              *)
(***************************************************************************)
EXTENDS Integers

CONSTANT Codes   \* statuses, none of them 200; 0 stands for no response at all

\* What a body decodes to.  "scalar": a number, a string or null; "garbage": no
\* JSON.  empty: falsy in Python; word: where a number belongs there is text
\* that is none.
Bodies == [shape : {"object", "list", "scalar", "garbage"}, empty : BOOLEAN, word : BOOLEAN]

\* json: the Content-Type names it.
Responses == [status : Codes \cup {200}, json : BOOLEAN, body : Bodies]

Result == [kind |-> "result", code |-> 200]
ApiError(code) == [kind |-> "error", code |-> code]
Exception == [kind |-> "exception", code |-> 200]

----------------------------------------------------------------------------
Demand(shape, b) == IF b.shape = shape THEN Result ELSE ApiError(200)

\* float(raw.get("balance") or 0.0)
Balance(b) == IF b.shape = "object" /\ b.word THEN Exception ELSE Demand("object", b)
Status(b) == Demand("object", b)
Roster(b) == Demand("list", b)
Info(b) == Demand("object", b)

\* int(custom.get("bw_sum") or 0); what is no object is an empty reply.
CustomerBandwidth(b) == IF b.shape = "object" /\ b.word THEN Exception ELSE Result

\* (raw or {}).items()
Unavailable(b) == IF b.shape = "object" \/ b.empty THEN Result ELSE Exception

\* Looked through with isinstance: what does not fit is left out.
Cost(b) == Result
ZoneBandwidth(b) == Result
NetworkStatus(b) == Result
PendingReplacement(b) == Result
RecentIps(b) == Result
IpsPerCountry(b) == Result
DedicatedVips(b) == Result
DomainConsumption(b) == Result

Endpoints == {"balance", "status", "roster", "bandwidth", "network", "unavailable", "pending",
              "recent", "info", "cost", "traffic", "ips", "vips", "domain_bw", "domain_req"}

Parse(p, b) ==
    CASE p = "balance" -> Balance(b)
      [] p = "status" -> Status(b)
      [] p = "roster" -> Roster(b)
      [] p = "info" -> Info(b)
      [] p = "bandwidth" -> CustomerBandwidth(b)
      [] p = "unavailable" -> Unavailable(b)
      [] p = "cost" -> Cost(b)
      [] p = "traffic" -> ZoneBandwidth(b)
      [] p = "network" -> NetworkStatus(b)
      [] p = "pending" -> PendingReplacement(b)
      [] p = "recent" -> RecentIps(b)
      [] p = "ips" -> IpsPerCountry(b)
      [] p = "vips" -> DedicatedVips(b)
      [] p \in {"domain_bw", "domain_req"} -> DomainConsumption(b)

\* _get, and the parser of p on what it returns.  A body that is no JSON is
\* text, unless it claims to be JSON: then decoding it raises ValueError.
Ending(p, r) ==
    CASE r.status # 200 -> ApiError(r.status)
      [] r.status = 200 /\ r.json /\ r.body.shape = "garbage" -> Exception
      [] OTHER -> Parse(p, r.body)

\* The ways a call of p can end.
Endings == [p \in Endpoints |-> {Ending(p, r) : r \in Responses}]

ErrorCodes == [p \in Endpoints |-> {e.code : e \in {x \in Endings[p] : x.kind = "error"}}]
Excepts == {p \in Endpoints : Exception \in Endings[p]}
=============================================================================
