-------------------------------- MODULE Details --------------------------------
(***************************************************************************)
(* One object at a time: the detail, YAML and yaml-diff routes of              *)
(* internal/api/handlers/resources.go over the getters of resources_adapter.go. *)
(* A request takes the selection, asks for permission to get this name, leases  *)
(* a client, sends a GET (a detail again when it may), and publishes the object  *)
(* if the selection is still the one it took.  Requests share the client: a      *)
(* detail whose credential is rejected evicts it.                             *)
(*                                                                          *)
(* Every request asks for the object of one name, which comes, goes and is      *)
(* permitted or not in the cluster of the current selection.                   *)
(***************************************************************************)
EXTENDS Diff

CONSTANTS
    Askers,             \* concurrent requests
    Asked,              \* the routes asked for
    LiveDocument,       \* the lines of the object
    Baselines,          \* of the manifest last applied; <<>> for none
    ReadAttempts,       \* RetryPolicy.Attempts
    MaxSelections,      \* bound: generations
    MaxDetailUpsets     \* bound: failures and changes

VARIABLES
    live,      \* the selection and what holds in its cluster
    client,    \* the cached client: the login it was built with (0 for none) and its lease
    ask,       \* the requests
    trouble

detailVars == <<live, client, ask, trouble>>

-----------------------------------------------------------------------------
(* Routes *)

\* Through getAuthorized: a name in a namespace.
RbacKinds    == {"roles", "rolebindings", "networkpolicies", "endpoints"}
PolicyKinds  == {"serviceaccounts", "resourcequotas", "limitranges", "horizontalpodautoscalers", "poddisruptionbudgets"}
StorageKinds == {"leases", "persistentvolumeclaims"}
CoreKinds    == {"services", "ingresses", "endpointslices", "configmaps", "secrets"}
WorkloadKinds == {"deployments", "statefulsets", "daemonsets", "replicasets", "jobs", "cronjobs"}

\* Through clusterGet: a name in the cluster.
ClassKinds   == {"clusterroles", "clusterrolebindings", "priorityclasses", "runtimeclasses", "ingressclasses"}
WebhookKinds == {"mutatingwebhookconfigurations", "validatingwebhookconfigurations", "customresourcedefinitions"}
VolumeKinds  == {"persistentvolumes", "storageclasses", "csidrivers", "csinodes", "volumeattachments", "namespaces", "nodes"}

NamespacedKinds == RbacKinds \cup PolicyKinds \cup StorageKinds \cup CoreKinds \cup WorkloadKinds \cup {"pods"}
ClusterKinds    == ClassKinds \cup WebhookKinds \cup VolumeKinds

\* fetchYAMLObject and the three curated cluster documents.
YamlKinds == {"pods", "services", "ingresses", "endpointslices", "configmaps"} \cup StorageKinds \cup WorkloadKinds
CuratedKinds == {"nodes", "persistentvolumes", "storageclasses"}

yamlDiffCollections == {"pods", "services", "ingresses", "endpointslices", "configmaps"} \cup WorkloadKinds

\* GetSecretData, the explicit read of a Secret's data.
DataKinds == {"secrets"}

Routes ==
    [form : {"detail"}, kind : NamespacedKinds \cup ClusterKinds]
      \cup [form : {"yaml"}, kind : YamlKinds \cup CuratedKinds]
      \cup [form : {"diff"}, kind : yamlDiffCollections]
      \cup [form : {"data"}, kind : DataKinds]

ASSUME AskedAreRoutes == Asked \subseteq Routes

Retries(route) == route.form \in {"detail", "data"}
InNamespace(route) == route.kind \in NamespacedKinds

-----------------------------------------------------------------------------

NewAsk(route) ==
    [route |-> route, pc |-> "open", gen |-> 0, context |-> 0, lease |-> 0, login |-> 0, attempt |-> 1, res |-> "none", answer |-> "none", saw |-> {}]

DetailsInit ==
    /\ live \in [gen : {1}, context : {1}, scoped : {TRUE}, there : BOOLEAN, permitted : BOOLEAN, login : {1}, applied : Baselines]
    /\ client = [login |-> 0, lease |-> 1]
    /\ ask \in {[a \in Askers |-> NewAsk(r[a])] : r \in [Askers -> Asked]}
    /\ trouble = 0

Trouble == trouble < MaxDetailUpsets /\ trouble' = trouble + 1

\* What a request could have seen, in which cluster (history).
Facts(l) == {<<l.context, IF l.there THEN "there" ELSE "gone">>, <<l.context, IF l.permitted THEN "permitted" ELSE "denied">>}

Go(a, pc) == [ask EXCEPT ![a].pc = pc]
Respond(a, code) == [ask EXCEPT ![a].pc = "done", ![a].answer = code]

\* activeSelection or clusterSelection, and validateResourcePath.
Open(a) ==
    /\ ask[a].pc = "open"
    /\ ask' = IF InNamespace(ask[a].route) /\ ~ live.scoped THEN Respond(a, "VALIDATION_FAILED")
              ELSE [ask EXCEPT ![a].pc = "review", ![a].gen = live.gen, ![a].context = live.context, ![a].saw = Facts(live)]
    /\ UNCHANGED <<live, client, trouble>>

\* authorizeGet, GetAuthorized and clusterGet alike: only a denial ends the
\* request, what no review decides is left to the GET.
Review(a) ==
    /\ ask[a].pc = "review"
    /\ \/ /\ ask' = IF live.gen = ask[a].gen /\ ~ live.permitted THEN Respond(a, "FORBIDDEN") ELSE Go(a, "lease")
          /\ UNCHANGED trouble
       \/ live.gen = ask[a].gen /\ ~ live.permitted /\ Trouble /\ ask' = Go(a, "lease")
    /\ UNCHANGED <<live, client>>

\* resourceHTTPError, mapResourceError and retryableRead of what went wrong.
Retryable(code) == code \in {"RATE_LIMITED", "CLUSTER_UNAVAILABLE", "UPSTREAM_TIMEOUT", "AUTHENTICATION_UNAVAILABLE"}

Failed(a, code) ==
    IF Retries(ask[a].route) /\ Retryable(code) /\ ask[a].attempt < ReadAttempts
    THEN [ask EXCEPT ![a].pc = "lease", ![a].attempt = @ + 1]
    ELSE Respond(a, code)

\* leaseFor of whatever is selected by now.
LeaseOfAny(a) ==
    /\ ask[a].pc = "lease"
    /\ client' = IF client.login = 0 THEN [client EXCEPT !.login = live.login] ELSE client
    /\ ask' = [ask EXCEPT ![a].pc = "get", ![a].lease = client.lease, ![a].login = client'.login]
    /\ UNCHANGED <<live, trouble>>

\* unary: leaseFor refuses another selection, and builds a client with the login
\* of now when none is cached.
Lease(a) ==
    /\ ask[a].pc = "lease"
    /\ IF live.gen # ask[a].gen THEN ask' = Failed(a, "CLUSTER_UNAVAILABLE") /\ UNCHANGED client
       ELSE /\ client' = IF client.login = 0 THEN [client EXCEPT !.login = live.login] ELSE client
            /\ ask' = [ask EXCEPT ![a].pc = "get", ![a].lease = client.lease, ![a].login = client'.login]
    /\ UNCHANGED <<live, trouble>>

\* What Kubernetes says; a missing HorizontalPodAutoscaler is taken for a missing
\* API (mapHPAError).
Response(a) ==
    CASE ask[a].login # live.login -> "AUTHENTICATION_UNAVAILABLE"
      [] ~ live.permitted -> "FORBIDDEN"
      [] ~ live.there -> IF ask[a].route.kind = "horizontalpodautoscalers" THEN "FEATURE_UNAVAILABLE" ELSE "NOT_FOUND"
      [] OTHER -> "OK"

\* The GET reaches the cluster, unless the lease has been cancelled.
Get(a) ==
    /\ ask[a].pc = "get"
    /\ ask[a].lease = client.lease
    /\ \/ ask' = [ask EXCEPT ![a].pc = "answered", ![a].res = Response(a)] /\ UNCHANGED trouble
       \/ /\ Trouble
          /\ \E code \in {"RATE_LIMITED", "UPSTREAM_TIMEOUT"} : ask' = [ask EXCEPT ![a].pc = "answered", ![a].res = code]
    /\ UNCHANGED <<live, client>>

\* The cancellation of the lease ends the request as a change of selection.
LeaseCancelled(a) ==
    /\ ask[a].pc \in {"get", "answered"}
    /\ ask[a].lease # client.lease
    /\ ask' = Respond(a, "GENERATION_CHANGED")
    /\ UNCHANGED <<live, client, trouble>>

\* recoverReadAuthentication: the client of the selection is evicted, the one
\* the credential was rejected with or a newer one.
Recovered(a) ==
    IF Retries(ask[a].route) /\ ask[a].res = "AUTHENTICATION_UNAVAILABLE" /\ live.gen = ask[a].gen
    THEN [login |-> 0, lease |-> client.lease + 1]
    ELSE client

\* MarshalReadOnlyYAML has no case for a ReplicaSet.
Marshalled(a) == IF ask[a].route.kind = "replicasets" THEN "FEATURE_UNAVAILABLE" ELSE "OK"

\* ResourceLastAppliedDiff: a panic is answered by the Recovery middleware.
Compared(a) ==
    CASE live.applied = <<>> -> "OK"
      [] Marshalled(a) # "OK" -> Marshalled(a)
      [] DiffYAML(LiveDocument, live.applied).lines = Panic -> "INTERNAL"
      [] OTHER -> "OK"

\* What becomes of the object that was read.
Rendered(a) ==
    CASE ask[a].route.form = "yaml" -> Marshalled(a)
      [] ask[a].route.form = "diff" -> Compared(a)
      [] OTHER -> "OK"

Receive(a) ==
    /\ ask[a].pc = "answered"
    /\ client' = Recovered(a)
    /\ ask' = IF ask[a].res # "OK" THEN Failed(a, ask[a].res)
              ELSE IF Rendered(a) # "OK" THEN Respond(a, Rendered(a))
              ELSE Go(a, "publish")
    /\ UNCHANGED <<live, trouble>>

\* A document beyond MaximumYAMLBytes.
TooLarge(a) ==
    /\ ask[a].pc = "answered" /\ ask[a].res = "OK" /\ ask[a].route.form \in {"yaml", "diff"}
    /\ Trouble
    /\ ask' = Respond(a, "BODY_TOO_LARGE")
    /\ UNCHANGED <<live, client>>

\* writeIfCurrent
Publish(a) ==
    /\ ask[a].pc = "publish"
    /\ ask' = Respond(a, IF live.gen = ask[a].gen THEN "OK" ELSE "GENERATION_CHANGED")
    /\ UNCHANGED <<live, client, trouble>>

\* The ten seconds of GetAuthorized run out.
Deadline(a) ==
    /\ ask[a].pc \in {"lease", "get", "answered"} /\ Retries(ask[a].route) /\ InNamespace(ask[a].route)
    /\ Trouble
    /\ ask' = Respond(a, "UPSTREAM_TIMEOUT")
    /\ UNCHANGED <<live, client>>

Witnessed(l) == [a \in Askers |-> [ask[a] EXCEPT !.saw = IF ask[a].pc \in {"open", "done"} THEN @ ELSE @ \cup Facts(l)]]

\* The object, the permission or the login changes.
LiveChanges ==
    /\ Trouble
    /\ \/ live' = [live EXCEPT !.there = ~ @]
       \/ live' = [live EXCEPT !.permitted = ~ @]
       \/ live' = [live EXCEPT !.login = @ + 1]
    /\ ask' = Witnessed(live')
    /\ UNCHANGED client

\* Another scope is selected, or another context: its cluster may be any, and
\* the client of the former one is dropped and its requests cancelled.
SelectionChanges ==
    /\ live.gen < MaxSelections
    /\ \/ /\ \E scoped \in BOOLEAN : live' = [live EXCEPT !.gen = @ + 1, !.scoped = scoped]
          /\ UNCHANGED client
       \/ /\ \E there, permitted \in BOOLEAN :
               live' = [live EXCEPT !.gen = @ + 1, !.context = @ + 1, !.scoped = TRUE, !.there = there, !.permitted = permitted]
          /\ client' = [login |-> 0, lease |-> client.lease + 1]
    /\ ask' = Witnessed(live')
    /\ UNCHANGED trouble

AskStep(a) ==
    \/ Open(a) \/ Review(a) \/ Lease(a) \/ Get(a) \/ LeaseCancelled(a) \/ Receive(a)
    \/ TooLarge(a) \/ Publish(a) \/ Deadline(a)

DetailsNext == LiveChanges \/ SelectionChanges \/ \E a \in Askers : AskStep(a)

-----------------------------------------------------------------------------
(* Properties *)

\* An answer is about the cluster of the selection the request took, although
\* only what is published is checked against it: an object that was given was
\* there and permitted, one that is said to be missing was, a denial was one,
\* whatever was selected, logged in again or retried meanwhile; a selection is
\* said to have changed only if it did or another request evicted the client;
\* and no request that gave up on a rejected login leaves it in use.
DetailsHonest ==
    \A a \in Askers : ask[a].pc = "done" =>
        LET Saw(fact) == <<ask[a].context, fact>> \in ask[a].saw IN
        /\ ask[a].answer = "OK" => Saw("there") /\ Saw("permitted")
        /\ ask[a].answer = "NOT_FOUND" => Saw("gone")
        /\ ask[a].answer = "FORBIDDEN" => Saw("denied")
        /\ ask[a].answer = "GENERATION_CHANGED" => live.gen > ask[a].gen \/ live.login > 1
        /\ (ask[a].answer = "AUTHENTICATION_UNAVAILABLE" /\ Retries(ask[a].route) /\ live.gen = ask[a].gen) =>
              client.login # ask[a].login
=============================================================================
