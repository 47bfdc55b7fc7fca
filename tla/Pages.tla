-------------------------------- MODULE Pages --------------------------------
(***************************************************************************)
(* The profiles of the console's pages, as module Screens reads them: for  *)
(* every panel how it is guarded, emptied and filled, and for every        *)
(* operation what it is aimed at, how it is opened, what it carries and    *)
(* what follows.  A profile leaves out the columns, the fields' names and  *)
(* the wording.                                                            *)
(* Source: frontend/src/pages, layouts, components.                        *)
(***************************************************************************)

-----------------------------------------------------------------------------
(* Shapes of operations *)

\* Sent by the click on a row.
Clicked(then) ==
    [aim |-> "row", opens |-> "at-once", then |-> then, fails |-> "closes", once |-> FALSE, carries |-> "change"]

\* Reads what the viewer then shows.
Viewed(aim) == [Clicked("shown") EXCEPT !.aim = aim]

\* Asked back by modal.confirm, whose button waits; the error closes it, or
\* is thrown on and leaves it open.
Confirmed(aim, then, fails) ==
    [aim |-> aim, opens |-> "confirm", then |-> then, fails |-> fails, once |-> TRUE, carries |-> "change"]

\* A form of the page: once when its button waits for the answer.
Created(then, once) ==
    [aim |-> "page", opens |-> "form", then |-> then, fails |-> "stays", once |-> once, carries |-> "change"]

\* A form filled from a row, which sends all that it was filled with.
Edited(aim, then, once) == [Created(then, once) EXCEPT !.aim = aim, !.carries = "as-opened"]

\* An editor, opened on what a request brings; opens says whether a failed one
\* is made up for by what the page builds itself.
Fetched(opens, aim, then) == [Edited(aim, then, TRUE) EXCEPT !.opens = opens]

\* Opens a viewer on a row, which what the request brings makes ready.
Opened(aim) == [Clicked("opened") EXCEPT !.aim = aim]

(* Shapes of panels *)

\* A table over a store, of the rows of the namespace.
Listing ==
    [from |-> "store", guard |-> {"filter"}, blank |-> FALSE, failed |-> "keeps", spinner |-> "none", masks |-> FALSE,
     empty |-> "never", again |-> FALSE, by |-> "namespace", stray |-> FALSE, ops |-> {}]

\* A table over a store of the whole cluster.
Catalog == [Listing EXCEPT !.by = "nothing"]

\* A table over a store that holds one namespace at a time.
OneNamespace == [Listing EXCEPT !.from = "slot", !.failed = "empties"]

\* State of the page itself, filled by an effect.
Own(by) == [Listing EXCEPT !.from = "own", !.guard = {}, !.by = by]

\* The effect's cleanup keeps late answers out.
Cancelling(by) == [Own(by) EXCEPT !.guard = {"cancel"}]

-----------------------------------------------------------------------------
(* Containers *)

\* The YAML of a Deployment is read from the namespace of the page.
DeploymentYaml   == Viewed("page")
DeploymentDelete == Confirmed("opened", "store", "closes")
DeploymentForm   == Created("store", FALSE)
DeploymentEdit   == Edited("page", "store", FALSE)
Deployments ==
    [Listing EXCEPT !.again = TRUE,
                    !.ops = {DeploymentYaml, DeploymentDelete, DeploymentForm, DeploymentEdit}]

StatefulSetDelete == Confirmed("opened", "store", "closes")
StatefulSetForm   == Created("store", FALSE)
StatefulSets ==
    [Listing EXCEPT !.again = TRUE, !.ops = {Viewed("page"), StatefulSetDelete, StatefulSetForm}]

\* MUTANT of PodDelete: the namespace is read when the deletion is confirmed.
PodDeleteLate == Confirmed("page", "store", "closes")

PodDelete == Confirmed("opened", "store", "closes")
Pods == [Listing EXCEPT !.again = TRUE, !.ops = {Viewed("page"), PodDelete}]

PVCDelete == Confirmed("opened", "store", "closes")
PVCForm   == Created("store", FALSE)
PVCs == [Listing EXCEPT !.again = TRUE, !.ops = {Viewed("page"), PVCDelete, PVCForm}]

\* Services, ConfigMaps and Secrets name the row's namespace; the editor's
\* button waits, and a failed deletion stays open.
ServiceDelete == Confirmed("row", "patch", "stays")
ServiceForm   == Created("store", TRUE)
Services == [Listing EXCEPT !.ops = {Viewed("row"), ServiceDelete, ServiceForm}]

ConfigMapDelete == Confirmed("row", "patch", "stays")
ConfigMapForm   == Created("store", TRUE)
ConfigMaps == [Listing EXCEPT !.ops = {Viewed("row"), ConfigMapDelete, ConfigMapForm}]

SecretDelete == Confirmed("row", "patch", "stays")
SecretForm   == Created("store", TRUE)
Secrets == [Listing EXCEPT !.ops = {Viewed("row"), SecretDelete, SecretForm}]

\* One editor for both kinds.
GatewayDelete   == Confirmed("row", "patch", "stays")
HTTPRouteDelete == Confirmed("row", "patch", "stays")
GatewayForm     == Created("store", TRUE)
Gateways == [Listing EXCEPT !.ops = {Viewed("page"), GatewayDelete, HTTPRouteDelete, GatewayForm}]

-----------------------------------------------------------------------------
(* Administration *)

GPUProfileDelete == Confirmed("row", "patch", "closes")
GPUProfileForm   == Created("patch", TRUE)
GPUProfiles == [Catalog EXCEPT !.again = TRUE, !.ops = {GPUProfileDelete, GPUProfileForm}]

\* All labels, or all taints, of the node as they were when the form opened.
NodeLabels == Edited("row", "patch", FALSE)
\* MUTANT of NodeTaints: the store does not take the answer.
NodeTaintsUnpatched == Edited("row", "nothing", FALSE)

NodeTaints == Edited("row", "patch", FALSE)
Nodes == [Catalog EXCEPT !.ops = {NodeLabels, NodeTaints}]

\* Edits send every field but an untouched credential.
GitLabConfigDelete == Confirmed("opened", "store", "closes")
GitLabConfigForm   == Created("store", FALSE)
GitLabConfigEdit   == Edited("page", "store", FALSE)
GitLabConfigs ==
    [OneNamespace EXCEPT !.again = TRUE, !.ops = {GitLabConfigDelete, GitLabConfigForm, GitLabConfigEdit}]

S3SecretDelete == Confirmed("opened", "store", "closes")
S3SecretForm   == Created("store", FALSE)
S3SecretEdit   == Edited("page", "store", FALSE)
S3Secrets ==
    [OneNamespace EXCEPT !.again = TRUE, !.ops = {S3SecretDelete, S3SecretForm, S3SecretEdit}]

\* The requests of one status, read again with the status of the click.
Review == Confirmed("row", "captured", "closes")
ModelPublishRequests ==
    [Own("selection") EXCEPT !.again = TRUE, !.spinner = "always-cleared", !.ops = {Review}]

\* Namespaces and their quotas; a quota store next to the application's list.
NamespaceDelete == Confirmed("row", "patch", "stays")
NamespaceForm   == Created("patch", FALSE)
Namespaces == [Catalog EXCEPT !.ops = {NamespaceDelete, NamespaceForm}]

\* The members of a namespace are users, whose memberships are sent whole.
MemberRole   == [Clicked("patch") EXCEPT !.carries = "as-opened"]
MemberRemove == [Clicked("patch") EXCEPT !.carries = "as-opened"]
MemberAssign == Edited("row", "patch", FALSE)
Members == [Catalog EXCEPT !.ops = {MemberRole, MemberRemove, MemberAssign}]

UserEdit == Edited("row", "patch", FALSE)
Users == [Catalog EXCEPT !.ops = {UserEdit}]

RoleDelete    == Confirmed("opened", "patch", "stays")
RoleForm      == Edited("page", "patch", FALSE)
BindingDelete == Confirmed("opened", "patch", "stays")
BindingForm   == Edited("page", "patch", FALSE)
Roles == [Listing EXCEPT !.ops = {RoleDelete, RoleForm, BindingDelete, BindingForm}]

\* The form is filled when the page is mounted, before the settings are there.
RegistryForm == [Edited("row", "patch", FALSE) EXCEPT !.opens = "inline", !.carries = "as-mounted"]
RegistrySync == Clicked("patch")
Registry == [Catalog EXCEPT !.ops = {RegistryForm, RegistrySync}]

ComponentActions   == Clicked("patch")
ComponentUninstall == Confirmed("row", "patch", "closes")
ComponentImport    == Created("patch", FALSE)
ComponentsPage ==
    [Catalog EXCEPT !.ops = {ComponentActions, ComponentUninstall, ComponentImport, RegistrySync}]

-----------------------------------------------------------------------------
(* AI Storage *)

\* The projects of one GitLab configuration.
GitLabProjects ==
    [Own("selection") EXCEPT !.failed = "empties", !.spinner = "always-cleared", !.empty = "keeps", !.again = TRUE]

\* The same list when the namespace changes: emptied, and read with the
\* configuration of the old namespace before the new one's are there.
GitLabProjectsOf == [GitLabProjects EXCEPT !.by = "namespace", !.blank = TRUE, !.stray = TRUE]

GitLabProject == [Cancelling("selection") EXCEPT !.spinner = "if-current", !.masks = TRUE]
GitLabRefs    == [Cancelling("selection") EXCEPT !.spinner = "if-current"]

\* The viewer names the file at once and takes what any answer brings.
FileViewer     == Viewed("page")
GitLabUpload   == Created("captured", FALSE)
GitLabDownload == [Clicked("saved") EXCEPT !.aim = "page"]
GitLabTree ==
    [Own("selection") EXCEPT !.failed = "empties", !.spinner = "always-cleared", !.again = TRUE,
                             !.ops = {FileViewer, GitLabUpload, GitLabDownload}]

\* The objects under a prefix of a bucket: every operation names the bucket
\* of the page, and lists again as the page was when it was clicked.
S3Upload   == [Clicked("captured") EXCEPT !.aim = "page"]
S3Download == [Clicked("saved") EXCEPT !.aim = "page"]
S3Delete   == Confirmed("opened", "captured", "closes")
S3Objects ==
    [Own("selection") EXCEPT !.failed = "empties", !.spinner = "always-cleared", !.empty = "keeps", !.again = TRUE,
                             !.ops = {S3Upload, S3Download, S3Delete}]
S3ObjectsOf == [S3Objects EXCEPT !.by = "namespace", !.blank = TRUE]
S3Buckets == [Cancelling("selection") EXCEPT !.empty = "keeps"]

\* The viewer is open before its grant is there, and shows its frame once
\* some grant is.
ViewerOpen  == Opened("page")
ViewerStart == [Clicked("store") EXCEPT !.aim = "page"]
ViewerStop  == [Clicked("store") EXCEPT !.aim = "page"]
StoragePVCDelete == Confirmed("opened", "store", "closes")
StoragePVCForm   == Created("store", FALSE)
PVCManager ==
    [OneNamespace EXCEPT !.again = TRUE,
                         !.ops = {ViewerOpen, ViewerStart, ViewerStop, StoragePVCDelete, StoragePVCForm}]

-----------------------------------------------------------------------------
(* Models *)

ModelDelete    == Confirmed("row", "patch", "closes")
ModelForm      == Created("patch", FALSE)
ModelImport    == Created("patch", FALSE)
ModelUpload    == Created("patch", FALSE)
CollectionDelete == Confirmed("row", "patch", "closes")
CollectionEdit   == Edited("row", "patch", FALSE)
PublishRequest   == [Created("elsewhere", FALSE) EXCEPT !.aim = "row"]
ModelHub ==
    [Listing EXCEPT !.again = TRUE,
                    !.ops = {ModelDelete, ModelForm, ModelImport, ModelUpload, PublishRequest}]
CollectionTab == [Listing EXCEPT !.again = TRUE, !.ops = {CollectionDelete, CollectionEdit}]

\* A model registered from a row of AI Storage, in the namespace of the page.
RegisterAsModel       == Created("patch", FALSE)
RegisterFromAIStorage == Created("patch", FALSE)

\* A spinner stands for the tree and for the services of the model until the
\* request is over; a failed one leaves the tree of the model before.
ModelTree     == [Cancelling("selection") EXCEPT !.spinner = "if-current", !.masks = TRUE]
ModelServices == [ModelTree EXCEPT !.failed = "empties"]
DetailDelete  == Confirmed("row", "elsewhere", "closes")
ModelDetail == [Catalog EXCEPT !.ops = {DetailDelete, PublishRequest}]

-----------------------------------------------------------------------------
(* Inference *)

ServiceYaml     == Viewed("page")
ServiceYamlEdit == Fetched("fetched-or-built", "page", "store")
ServiceStop     == [Clicked("store") EXCEPT !.aim = "page"]
InferenceDelete  == Confirmed("opened", "store", "closes")
ServiceCreate   == Created("store", FALSE)
ServiceEdit     == Edited("page", "store", FALSE)
InferenceServices ==
    [Listing EXCEPT !.again = TRUE,
       !.ops = {ServiceYaml, ServiceYamlEdit, ServiceStop, InferenceDelete, ServiceCreate, ServiceEdit}]

\* The routes of every service that is listed, looked up by the service.
RouteStatuses ==
    [Cancelling("namespace") EXCEPT !.guard = {"cancel", "filter"}, !.failed = "empties"]
GatewayBanner == [Own("nothing") EXCEPT !.failed = "empties"]

RuntimeYaml     == Viewed("page")
RuntimeYamlEdit == Fetched("fetched-or-built", "page", "store")
RuntimeDelete   == Confirmed("opened", "store", "closes")

\* The form, or a manifest, of a new runtime; the form of one that is there.
RuntimeCreate == Created("store", FALSE)
RuntimeEdit   == Edited("page", "store", FALSE)

\* A runtime of the cluster is copied into the namespace: its list, its
\* manifest as the page has rewritten it, and what is sent.
ClusterRuntimes == [Own("nothing") EXCEPT !.failed = "empties", !.spinner = "always-cleared"]
RuntimePreview ==
    [Own("selection") EXCEPT !.failed = "empties", !.spinner = "always-cleared", !.empty = "empties"]
RuntimeImport   == Created("store", TRUE)
ServingRuntimes ==
    [Listing EXCEPT !.again = TRUE,
       !.ops = {RuntimeYaml, RuntimeYamlEdit, RuntimeDelete, RuntimeCreate, RuntimeEdit, RuntimeImport}]

\* The rows are not filtered: the list of the namespace that answers last.
LLMConfigYaml   == Viewed("row")
LLMConfigEdit   == Fetched("fetched", "row", "captured")
LLMConfigCreate == [Created("captured", TRUE) EXCEPT !.aim = "opened"]
LLMConfigDelete == Confirmed("row", "captured", "closes")
LLMConfigs ==
    [Own("namespace") EXCEPT !.spinner = "always-cleared", !.again = TRUE,
       !.ops = {LLMConfigYaml, LLMConfigEdit, LLMConfigCreate, LLMConfigDelete}]

StorageContainerYaml   == Viewed("row")
StorageContainerEdit   == Fetched("fetched", "row", "captured")
StorageContainerDelete == Confirmed("row", "captured", "closes")
StorageContainers ==
    [Own("nothing") EXCEPT !.spinner = "always-cleared", !.again = TRUE,
       !.ops = {StorageContainerYaml, StorageContainerEdit, StorageContainerDelete, LLMConfigCreate}]

CacheYaml       == Viewed("row")
CacheEdit       == Fetched("fetched", "row", "store")
CacheDelete     == Confirmed("row", "patch", "closes")
NodeGroupDelete == Confirmed("row", "patch", "closes")

\* The list is read again before the form closes.
NodeGroupForm == Created("store", FALSE)
CacheForm     == Created("store", FALSE)
LocalModelCache ==
    [Catalog EXCEPT !.again = TRUE,
       !.ops = {CacheYaml, CacheEdit, CacheDelete, NodeGroupDelete, NodeGroupForm, CacheForm}]

GatewayConfig == [Own("nothing") EXCEPT !.failed = "empties", !.spinner = "always-cleared", !.again = TRUE]

\* Routes and limits of the namespace's services, one request after the other;
\* a failed one counts as none.
CreateRoute == [Edited("row", "captured", TRUE) EXCEPT !.carries = "change"]
GatewayRows ==
    [Own("namespace") EXCEPT !.failed = "stands-in", !.spinner = "always-cleared", !.again = TRUE,
                             !.ops = {CreateRoute}]

\* The detail of a service: what is not there yet, or failed, looks as if it
\* were still being read.
ServiceDetail == [Listing EXCEPT !.by = "selection"]
DetailRoutes ==
    [Own("selection") EXCEPT !.failed = "empties", !.spinner = "until-filled", !.again = TRUE]
DetailGateway == [DetailRoutes EXCEPT !.by = "nothing"]

\* Without an answer a made-up series stands for the service's.
DetailSeries == [Cancelling("selection") EXCEPT !.failed = "stands-in", !.again = TRUE]

-----------------------------------------------------------------------------
(* Training and notebooks *)

TrainJobDelete == Confirmed("opened", "patch", "stays")
TrainJobForm   == Created("store", FALSE)
TrainJobs == [Listing EXCEPT !.ops = {TrainJobDelete, TrainJobForm}]

TrainingRuntimeDelete == Confirmed("opened", "patch", "stays")
TrainingRuntimeForm   == Created("store", FALSE)
TrainingRuntimes == [Listing EXCEPT !.ops = {TrainingRuntimeDelete, TrainingRuntimeForm}]

NotebookStartStop == Clicked("store")
NotebookDelete    == Confirmed("row", "store", "closes")
NotebookForm      == Created("store", TRUE)
Notebooks ==
    [Listing EXCEPT !.again = TRUE, !.ops = {NotebookStartStop, NotebookDelete, NotebookForm}]

-----------------------------------------------------------------------------
(* Playground, logs, monitoring, layout *)

\* The providers of one namespace at a time; what is listed of the cluster or
\* from outside is shown whatever the namespace.
ProviderDelete == Confirmed("row", "patch", "stays")
ProviderForm   == Created("patch", FALSE)
ProviderSync   == [Clicked("patch") EXCEPT !.aim = "opened"]
LLMRegistry == [Own("namespace") EXCEPT !.ops = {ProviderDelete, ProviderForm, ProviderSync}]

\* The pods whose logs can be chosen.
LogPods == [Cancelling("selection") EXCEPT !.empty = "empties", !.again = TRUE]

\* The status of the cluster's GPUs hides the page until it is there.
ClusterGPUs == [Cancelling("nothing") EXCEPT !.spinner = "if-current", !.masks = TRUE]
NamespaceGPUs == [Cancelling("namespace") EXCEPT !.spinner = "if-current"]
GPUDevices  == [ClusterGPUs EXCEPT !.failed = "empties"]

\* Series stand in for those that cannot be had.
ResourceCharts == [Cancelling("selection") EXCEPT !.failed = "stands-in"]
LLMSeries   == [ResourceCharts EXCEPT !.empty = "empties", !.again = TRUE]
TrainSeries == LLMSeries

\* The widgets filter the stores that the page warms; the GPUs are its own.
Dashboard     == Listing
DashboardGPUs == [Cancelling("namespace") EXCEPT !.failed = "empties"]

ClusterName == Cancelling("nothing")

-----------------------------------------------------------------------------
(* The panels of the console *)

Panels ==
    {Deployments, StatefulSets, Pods, PVCs, Services, ConfigMaps, Secrets, Gateways,
     GPUProfiles, Nodes, GitLabConfigs, S3Secrets, ModelPublishRequests, Namespaces, Members, Users, Roles,
     Registry, ComponentsPage,
     GitLabProjects, GitLabProjectsOf, GitLabProject, GitLabRefs, GitLabTree, S3Objects, S3ObjectsOf, S3Buckets,
     PVCManager, ModelHub, CollectionTab, ModelTree, ModelServices, ModelDetail,
     InferenceServices, RouteStatuses, GatewayBanner, ServingRuntimes, ClusterRuntimes, RuntimePreview,
     LLMConfigs, StorageContainers, LocalModelCache, GatewayConfig, GatewayRows,
     ServiceDetail, DetailRoutes, DetailGateway, DetailSeries,
     TrainJobs, TrainingRuntimes, Notebooks, LLMRegistry, LogPods,
     ClusterGPUs, NamespaceGPUs, GPUDevices, ResourceCharts, LLMSeries, TrainSeries,
     Dashboard, DashboardGPUs, ClusterName}

\* The collections' editor and what is registered from AI Storage are sent
\* from other pages than they appear on.
Registering == [ModelHub EXCEPT !.ops = {RegisterAsModel, RegisterFromAIStorage}]

=============================================================================
