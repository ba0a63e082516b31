----------------------------- MODULE TypedClient ------------------------------
(***************************************************************************)
(* pkg/generated, as far as it decides which resources a call reaches and  *)
(* whether the call can be coded: the scheme, the clientset and its typed  *)
(* client, the way of a namespace through the informer factory, and the    *)
(* lister.                                                                 *)
(***************************************************************************)

CONSTANTS
    Namespaces,
    Names,
    NamespaceAll   \* the empty namespace

ASSUME NamespaceAllIsNone == NamespaceAll \notin Namespaces

\* The keys of the resources.
Connectors == [namespace: Namespaces, name: Names]

-----------------------------------------------------------------------------
(* The scheme: the kinds that a client of the group version can code. *)

AddToGroupVersion(scheme) == scheme \union {"ListOptions", "UpdateOptions", "WatchEvent"}

addKnownTypes(scheme) == AddToGroupVersion(scheme \union {"Connector", "ConnectorList"})

Scheme == addKnownTypes({})

-----------------------------------------------------------------------------
(* The clientset.  Its config has no part that the source sets. *)

setConfigDefaults == [negotiatedSerializer |-> Scheme]

NewGroupClient == [restClient |-> setConfigDefaults]

NewForConfig == [mgazzaV1alpha1 |-> NewGroupClient]

RESTClient(c) == c.restClient

newConnectors(c, namespace) == [client |-> RESTClient(c), ns |-> namespace]

\* cs.MgazzaV1alpha1().Connectors(namespace)
ConnectorsIn(cs, namespace) == newConnectors(cs.mgazzaV1alpha1, namespace)

Codes(conn, kinds) == kinds \subseteq conn.client.negotiatedSerializer

\* What the path .../connectors is about.
Collection(conn) == {k \in Connectors : conn.ns \in {NamespaceAll, k.namespace}}

\* What the path .../connectors/name is about, if anything: without a
\* namespace it is refused.
Member(conn, name) == {k \in Connectors : k.namespace = conn.ns /\ k.name = name}

-----------------------------------------------------------------------------
(* The informer's way to its client: main makes the factory without any    *)
(* option, and Mgazza().V1alpha1().Connectors() hands its namespace on.    *)

NewSharedInformerFactory(cs) == [client |-> cs, namespace |-> NamespaceAll]

Mgazza(f) == [factory |-> f, namespace |-> f.namespace]

V1alpha1(group) == [factory |-> group.factory, namespace |-> group.namespace]

ConnectorInformer(version) == [factory |-> version.factory, namespace |-> version.namespace]

\* The client of ListFunc and WatchFunc.
InformerClient(informer) == ConnectorsIn(informer.factory.client, informer.namespace)

-----------------------------------------------------------------------------
(* The lister, which splits the indexer by namespace. *)

NewConnectorLister(indexer) == [indexer |-> indexer]

\* connectorLister.Connectors(namespace)
ListerIn(lister, namespace) == [indexer |-> lister.indexer, namespace |-> namespace]

ListerGet(lister, name) == lister.indexer[[namespace |-> lister.namespace, name |-> name]]
=============================================================================
