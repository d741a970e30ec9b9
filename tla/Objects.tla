------------------------------ MODULE Objects ------------------------------
(***************************************************************************)
(* The GObject classes of telepathy-glib and of its example connection      *)
(* managers as tables: which properties a class installs and with which     *)
(* access, how its set_property, get_property, dispose and finalize treat   *)
(* them, and which D-Bus properties it serves through                       *)
(* TpDBusPropertiesMixin.  Then an object of any class: it is made with     *)
(* some of its construction properties, its properties are written in any   *)
(* order, by the program or over D-Bus, it fills its read-only ones, and it *)
(* is disposed of, perhaps twice, before it is finalized.                   *)
(*                                                                          *)
(* A field is named after the property that reads it; fields that no        *)
(* property shows are left out, and so is what a class does besides (the    *)
(* other modules model that).                                               *)
(***************************************************************************)
EXTENDS Naturals, Sequences, SequencesExt, FiniteSetsExt

CONSTANTS
  MaxWrites,   \* how many properties are written after construction
  MaxDisposals \* how often dispose may run: references taken during it bring an object back

VARIABLES
  self,        \* the object
  made         \* whether it was made

----------------------------------------------------------------------------
NULL == "NULL"

(* What class_init installs: G_PARAM_READABLE, READWRITE, READWRITE | CONSTRUCT,
   READWRITE | CONSTRUCT_ONLY, WRITABLE | CONSTRUCT_ONLY and WRITABLE properties, the
   properties overridden from a parent or an interface, and the D-Bus properties given in
   the class structure or by tp_dbus_properties_mixin_implement_interface. *)
NoProperties ==
  [ro |-> {}, rw |-> {}, rwc |-> {}, once |-> {}, wonce |-> {}, w |-> {}, over |-> {},
   static |-> <<>>, extra |-> <<>>]

Kinds == {"ro", "rw", "rwc", "once", "wonce", "w"}

Gobject == "gobject properties"
Custom == "own function"

Served(iface, getter, setter, props) ==
  [iface |-> iface, getter |-> getter, setter |-> setter, props |-> props]

(* get_property: the field each property shows, and whether the object fills that field
   itself and owns what it puts there. *)
Own(P) == {<<p, p, "plain">> : p \in P}
Held(P) == {<<p, p, "held">> : p \in P}
Computed(P) == {<<p, "", "computed">> : p \in P}

(* set_property: the fields each property is stored in, and how. *)
Stores(P) == {<<p, p, {}>> : p \in P}
Dups(P) == {<<p, p, {"held"}>> : p \in P}
DupsOnce(P) == {<<p, p, {"held", "once"}>> : p \in P}
DupsOver(P) == {<<p, p, {"held", "over"}>> : p \in P}

(* dispose: the fields released and set to NULL, those released and left as they are, and
   whether a second call returns at once. *)
Releases(clears, drops) == [clears |-> clears, drops |-> drops, once |-> FALSE]
ReleasesOnce(clears, drops) == [clears |-> clears, drops |-> drops, once |-> TRUE]
NoRelease == Releases({}, {})

Class(parent, ifaces, class_init, get_property, set_property, constructed, dispose, finalize) ==
  [parent |-> parent, ifaces |-> ifaces, init |-> class_init, get |-> get_property,
   set |-> set_property, needs |-> constructed, dispose |-> dispose, finalize |-> finalize]

(* The interfaces with properties. *)
tp_channel_iface_base_init ==
  [NoProperties EXCEPT !.once = {"object-path", "channel-type", "handle-type", "handle"}]

tp_exportable_channel_base_init ==
  [NoProperties EXCEPT !.once = {"object-path"},
     !.ro = {"channel-properties", "channel-destroyed"}]

tp_handle_repo_iface_default_init ==
  [NoProperties EXCEPT !.once = {"handle-type"}]

IfaceInit ==
  [ChannelIface |-> tp_channel_iface_base_init,
   ExportableChannel |-> tp_exportable_channel_base_init,
   HandleRepoIface |-> tp_handle_repo_iface_default_init]

(* The interfaces that the mixins serve, with getters of their own. *)
Mixed(iface, names) == Served(iface, Custom, NULL, {<<n, n>> : n \in names})

tp_group_mixin_init_dbus_properties ==
  <<Mixed("ChannelInterfaceGroup",
      {"GroupFlags", "HandleOwners", "LocalPendingMembers", "Members", "RemotePendingMembers",
       "SelfHandle", "MemberIdentifiers"})>>

(* The chat states are served if the class implements their interface. *)
tp_message_mixin_init_dbus_properties(chatStates) ==
  <<Mixed("ChannelInterfaceMessages",
      {"PendingMessages", "SupportedContentTypes", "MessagePartSupportFlags", "MessageTypes",
       "DeliveryReportingSupport"})>>
    \o (IF chatStates THEN <<Mixed("ChannelInterfaceChatState", {"ChatStates"})>> ELSE <<>>)

tp_contacts_mixin_class_init ==
  <<Mixed("ConnectionInterfaceContacts", {"ContactAttributeInterfaces"})>>

tp_presence_mixin_simple_presence_init_dbus_properties ==
  <<Mixed("ConnectionInterfaceSimplePresence", {"Statuses", "MaximumStatusMessageLength"})>>

(* For a connection that implements all three interfaces of a contact list. *)
tp_base_contact_list_mixin_class_init ==
  <<Mixed("ConnectionInterfaceContactList",
      {"ContactListState", "ContactListPersists", "CanChangeContactList", "RequestUsesMessage",
       "DownloadAtConnection"}),
    Mixed("ConnectionInterfaceContactGroups", {"DisjointGroups", "GroupStorage", "Groups"}),
    Mixed("ConnectionInterfaceContactBlocking", {"ContactBlockingCapabilities"})>>

tp_account_channel_request_class_init ==
  [NoProperties EXCEPT !.ro = {"channel-request"},
     !.once = {"account", "request", "request-vardict", "user-action-time"}]

tp_account_channel_request_get_property ==
  Own({"account", "request", "user-action-time"})
    \cup Held({"channel-request"})
    \cup Computed({"request-vardict"})

tp_account_channel_request_set_property ==
  Dups({"account"})
    \cup Stores({"user-action-time"})
    \cup {<<"request", "request", {"held", "given", "unset"}>>,
         <<"request-vardict", "request", {"held", "given", "unset"}>>}

tp_account_channel_request_constructed ==
  {"account"}

tp_account_channel_request_dispose ==
  Releases({"account", "request", "channel-request"}, {})

TpAccountChannelRequest ==
  Class("GObject", {},
    tp_account_channel_request_class_init, tp_account_channel_request_get_property, tp_account_channel_request_set_property, tp_account_channel_request_constructed,
    tp_account_channel_request_dispose, {})

(* What TpAccountRequest shows of the presences asked for. *)
AccountRequestPresenceProperties ==
  {"requested-status", "requested-status-message", "automatic-presence-type",
   "automatic-status", "automatic-status-message", "enabled", "connect-automatically",
   "supersedes"}

(* What it shows of the avatar, the service and the storage. *)
AccountRequestServiceProperties ==
  {"avatar", "avatar-mime-type", "service", "storage-provider"}

tp_account_request_class_init ==
  [NoProperties EXCEPT !.ro = {"parameters", "properties", "icon-name", "nickname", "requested-presence-type"}
       \cup AccountRequestPresenceProperties
       \cup AccountRequestServiceProperties,
     !.once = {"account-manager", "connection-manager", "protocol", "display-name"}]

tp_account_request_get_property ==
  Own({"account-manager", "connection-manager", "protocol", "display-name"})
    \cup Computed({"parameters", "properties", "icon-name", "nickname",
         "requested-presence-type", "requested-status", "requested-status-message",
         "automatic-presence-type", "automatic-status", "automatic-status-message",
         "enabled", "connect-automatically", "supersedes", "avatar", "avatar-mime-type",
         "service", "storage-provider"})

tp_account_request_set_property ==
  DupsOnce({"account-manager", "connection-manager", "protocol", "display-name"})

tp_account_request_constructed ==
  {"account-manager", "connection-manager", "protocol", "display-name"}

tp_account_request_dispose ==
  Releases({"account-manager"}, {})

tp_account_request_finalize ==
  {"connection-manager", "protocol", "display-name"}

TpAccountRequest ==
  Class("GObject", {},
    tp_account_request_class_init, tp_account_request_get_property, tp_account_request_set_property, tp_account_request_constructed,
    tp_account_request_dispose, tp_account_request_finalize)

(* The properties of TpAccount about its connection. *)
AccountConnectionProperties ==
  {"connection-status", "connection-status-reason", "connection-error",
   "connection-error-details", "connection"}

(* Those that say what account it is. *)
AccountIdentityProperties ==
  {"display-name", "connection-manager", "protocol", "cm-name", "protocol-name",
   "service", "icon-name"}

(* Its settings, and the presence requested of it. *)
AccountRequestedProperties ==
  {"connect-automatically", "has-been-online", "valid", "requested-presence-type",
   "requested-status", "requested-status-message"}

(* Its nickname, and the presence it takes by itself. *)
AccountAutomaticProperties ==
  {"nickname", "automatic-presence-type", "automatic-status", "automatic-status-message",
   "normalized-name"}

(* Where it is stored, and what it replaces. *)
AccountStorageProperties ==
  {"storage-provider", "storage-identifier", "storage-identifier-variant",
   "storage-restrictions", "supersedes", "uri-schemes"}

tp_account_class_init ==
  [NoProperties EXCEPT !.ro = {"enabled", "current-presence-type", "current-status", "current-status-message",
       "changing-presence"}
       \cup AccountConnectionProperties
       \cup AccountIdentityProperties
       \cup AccountRequestedProperties
       \cup AccountAutomaticProperties
       \cup AccountStorageProperties]

tp_account_get_property ==
  Own({"enabled", "current-presence-type", "connection-status",
         "connection-status-reason", "changing-presence", "connect-automatically",
         "has-been-online", "valid", "requested-presence-type", "automatic-presence-type",
         "storage-restrictions"})
    \cup Held({"current-status", "current-status-message", "connection-error",
         "connection-error-details", "connection-manager", "protocol", "icon-name",
         "service", "requested-status", "requested-status-message", "nickname",
         "supersedes", "uri-schemes", "automatic-status", "automatic-status-message",
         "storage-provider", "storage-identifier"})
    \cup {<<"cm-name", "connection-manager", "plain">>,
         <<"protocol-name", "protocol", "plain">>}
    \cup Computed({"connection", "display-name", "normalized-name",
         "storage-identifier-variant"})

tp_account_finalize ==
  {"current-status", "current-status-message", "connection-error",
   "connection-error-details", "connection-manager", "protocol", "icon-name", "service",
   "requested-status", "requested-status-message", "nickname", "supersedes", "uri-schemes",
   "automatic-status", "automatic-status-message", "storage-provider", "storage-identifier"}

TpAccount ==
  Class("TpProxy", {},
    tp_account_class_init, tp_account_get_property, {}, {},
    NoRelease, tp_account_finalize)

tp_add_dispatch_operation_context_class_init ==
  [NoProperties EXCEPT !.once = {"account", "connection", "channels", "dispatch-operation"},
     !.wonce = {"dbus-context"}]

tp_add_dispatch_operation_context_get_property ==
  Own({"account", "connection", "channels", "dispatch-operation"})

tp_add_dispatch_operation_context_set_property ==
  Dups({"account", "connection", "channels", "dispatch-operation"})
    \cup Stores({"dbus-context"})

tp_add_dispatch_operation_context_constructed ==
  {"account", "connection", "channels", "dispatch-operation", "dbus-context"}

tp_add_dispatch_operation_context_dispose ==
  Releases({"account", "connection", "channels", "dispatch-operation"}, {})

TpAddDispatchOperationContext ==
  Class("GObject", {},
    tp_add_dispatch_operation_context_class_init, tp_add_dispatch_operation_context_get_property, tp_add_dispatch_operation_context_set_property, tp_add_dispatch_operation_context_constructed,
    tp_add_dispatch_operation_context_dispose, {})

tp_base_client_class_init ==
  [NoProperties EXCEPT !.once = {"dbus-daemon", "account-manager", "factory", "name", "uniquify-name",
       "channel-factory"},
     !.static = <<Served("Client", Custom, NULL, {<<"Interfaces", "Interfaces">>}),
       Served("ClientObserver", Custom, NULL,
       {<<"ObserverChannelFilter", "ObserverChannelFilter">>, <<"Recover", "Recover">>,
       <<"DelayApprovers", "DelayApprovers">>}), Served("ClientApprover", Custom, NULL,
       {<<"ApproverChannelFilter", "ApproverChannelFilter">>}), Served("ClientHandler",
       Custom, NULL, {<<"HandlerChannelFilter", "HandlerChannelFilter">>,
       <<"BypassApproval", "BypassApproval">>, <<"Capabilities", "Capabilities">>,
       <<"HandledChannels", "HandledChannels">>})>>]

tp_base_client_get_property ==
  Own({"dbus-daemon", "account-manager", "factory", "name", "uniquify-name",
         "channel-factory"})

tp_base_client_set_property ==
  DupsOnce({"dbus-daemon", "account-manager", "factory", "name", "channel-factory"})
    \cup Stores({"uniquify-name"})

tp_base_client_constructed ==
  {"name"}

tp_base_client_dispose ==
  Releases({"dbus-daemon", "account-manager", "factory", "channel-factory"}, {})

tp_base_client_finalize ==
  {"name"}

TpBaseClient ==
  Class("GObject", {"DbusProperties", "Client", "ClientObserver", "ClientApprover", "ClientHandler",
        "ClientInterfaceRequests"},
    tp_base_client_class_init, tp_base_client_get_property, tp_base_client_set_property, tp_base_client_constructed,
    tp_base_client_dispose, tp_base_client_finalize)

(* The names of the initial contents, and the hold state. *)
CallHoldProperties ==
  {"initial-audio-name", "initial-video-name", "mutable-contents", "hold-state",
   "hold-state-reason"}

tp_call_channel_class_init ==
  [NoProperties EXCEPT !.ro = {"contents", "state", "flags", "state-details", "state-reason", "hardware-streaming",
       "initial-audio", "initial-video"}
       \cup CallHoldProperties]

tp_call_channel_get_property ==
  Own({"state", "flags", "hardware-streaming", "initial-audio", "initial-video",
         "mutable-contents", "hold-state", "hold-state-reason"})
    \cup Held({"contents", "state-details", "state-reason", "initial-audio-name",
         "initial-video-name"})

tp_call_channel_dispose ==
  Releases({"contents", "state-details", "state-reason", "initial-audio-name",
   "initial-video-name"}, {})

TpCallChannel ==
  Class("TpChannel", {},
    tp_call_channel_class_init, tp_call_channel_get_property, {}, {},
    tp_call_channel_dispose, {})

tp_call_content_class_init ==
  [NoProperties EXCEPT !.ro = {"name", "media-type", "disposition", "streams"},
     !.once = {"connection", "channel"}]

tp_call_content_get_property ==
  Own({"connection", "media-type", "disposition", "channel"})
    \cup Held({"name", "streams"})

tp_call_content_set_property ==
  DupsOnce({"connection", "channel"})

tp_call_content_dispose ==
  Releases({"connection", "name", "streams"}, {})

TpCallContent ==
  Class("TpProxy", {},
    tp_call_content_class_init, tp_call_content_get_property, tp_call_content_set_property, {},
    tp_call_content_dispose, {})

tp_call_stream_class_init ==
  [NoProperties EXCEPT !.ro = {"local-sending-state", "can-request-receiving"},
     !.once = {"connection", "content"}]

tp_call_stream_get_property ==
  Own({"connection", "local-sending-state", "can-request-receiving", "content"})

tp_call_stream_set_property ==
  DupsOnce({"connection", "content"})

tp_call_stream_dispose ==
  Releases({"connection", "content"}, {})

TpCallStream ==
  Class("TpProxy", {},
    tp_call_stream_class_init, tp_call_stream_get_property, tp_call_stream_set_property, {},
    tp_call_stream_dispose, {})

tp_capabilities_class_init ==
  [NoProperties EXCEPT !.ro = {"channel-classes-variant"},
     !.once = {"channel-classes", "contact-specific"}]

tp_capabilities_get_property ==
  Own({"channel-classes", "contact-specific", "channel-classes-variant"})

tp_capabilities_set_property ==
  Stores({"contact-specific"})
    \cup {<<"channel-classes", "channel-classes", {"held"}>>,
         <<"channel-classes", "channel-classes-variant", {"held"}>>}

tp_capabilities_constructed ==
  {"channel-classes"}

tp_capabilities_dispose ==
  Releases({"channel-classes", "channel-classes-variant"}, {})

TpCapabilities ==
  Class("GObject", {},
    tp_capabilities_class_init, tp_capabilities_get_property, tp_capabilities_set_property, tp_capabilities_constructed,
    tp_capabilities_dispose, {})

tp_channel_dispatch_operation_class_init ==
  [NoProperties EXCEPT !.ro = {"possible-handlers"},
     !.once = {"connection", "account", "channels", "cdo-properties"}]

tp_channel_dispatch_operation_get_property ==
  Own({"connection", "account", "channels"})
    \cup Held({"possible-handlers", "cdo-properties"})

tp_channel_dispatch_operation_set_property ==
  DupsOnce({"account", "connection"})
    \cup {<<"channels", "channels", {"held", "once"}>>,
         <<"cdo-properties", "cdo-properties", {"given"}>>}

tp_channel_dispatch_operation_dispose ==
  Releases({"account", "connection", "channels", "possible-handlers", "cdo-properties"},
   {})

TpChannelDispatchOperation ==
  Class("TpProxy", {},
    tp_channel_dispatch_operation_class_init, tp_channel_dispatch_operation_get_property, tp_channel_dispatch_operation_set_property, {},
    tp_channel_dispatch_operation_dispose, {})

(* The hints of TpChannelRequest. *)
ChannelRequestHintProperties ==
  {"hints", "hints-vardict"}

tp_channel_request_class_init ==
  [NoProperties EXCEPT !.ro = {"immutable-properties-vardict", "account", "user-action-time", "preferred-handler"}
       \cup ChannelRequestHintProperties,
     !.rwc = {"channel-factory"},
     !.once = {"immutable-properties"}]

tp_channel_request_get_property ==
  Own({"channel-factory", "immutable-properties"})
    \cup Computed({"immutable-properties-vardict", "account", "user-action-time",
         "preferred-handler", "hints", "hints-vardict"})

tp_channel_request_set_property ==
  DupsOver({"channel-factory"})
    \cup DupsOnce({"immutable-properties"})

tp_channel_request_dispose ==
  Releases({"channel-factory", "immutable-properties"}, {})

TpChannelRequest ==
  Class("TpProxy", {},
    tp_channel_request_class_init, tp_channel_request_get_property, tp_channel_request_set_property, {},
    tp_channel_request_dispose, {})

(* Who made the channel, and what it asks for. *)
ChannelInitiationProperties ==
  {"group-flags", "requested", "initiator-handle", "initiator-identifier",
   "password-needed"}

(* The contacts of TpChannel. *)
ChannelContactProperties ==
  {"target-contact", "initiator-contact", "group-self-contact"}

tp_channel_class_init ==
  [NoProperties EXCEPT !.ro = {"identifier", "channel-ready", "group-self-handle"}
       \cup ChannelInitiationProperties
       \cup ChannelContactProperties,
     !.once = {"channel-properties", "connection"},
     !.over = {"channel-type", "handle-type", "handle"}]

tp_channel_get_property ==
  Own({"connection", "channel-ready", "handle-type", "handle", "group-self-handle",
         "group-flags"})
    \cup Held({"channel-properties"})
    \cup Computed({"channel-type", "identifier", "requested", "initiator-handle",
         "initiator-identifier", "password-needed", "target-contact", "initiator-contact",
         "group-self-contact"})

tp_channel_set_property ==
  Dups({"connection"})
    \cup {<<"channel-type", "channel-type", {"given"}>>,
         <<"handle-type", "handle-type", {"given"}>>, <<"handle", "handle", {"given"}>>,
         <<"channel-properties", "channel-properties", {"given"}>>,
         <<"channel-properties", "handle-type", {"given"}>>,
         <<"channel-properties", "handle", {"given"}>>,
         <<"channel-properties", "channel-type", {"given"}>>,
         <<"channel-properties", "identifier", {"held", "given", "unset"}>>}

tp_channel_dispose ==
  Releases({"connection"}, {})

tp_channel_finalize ==
  {"channel-properties", "identifier"}

TpChannel ==
  Class("TpProxy", {"ChannelIface"},
    tp_channel_class_init, tp_channel_get_property, tp_channel_set_property, {},
    tp_channel_dispose, tp_channel_finalize)

tp_connection_manager_class_init ==
  [NoProperties EXCEPT !.ro = {"info-source", "connection-manager", "cm-name"},
     !.rw = {"always-introspect"},
     !.rwc = {"manager-file"}]

tp_connection_manager_get_property ==
  Own({"connection-manager", "info-source", "manager-file", "always-introspect"})
    \cup {<<"cm-name", "connection-manager", "plain">>}

tp_connection_manager_set_property ==
  {<<"manager-file", "manager-file", {"held", "over", "found"}>>,
         <<"always-introspect", "always-introspect", {}>>}

tp_connection_manager_finalize ==
  {"manager-file"}

TpConnectionManager ==
  Class("TpProxy", {},
    tp_connection_manager_class_init, tp_connection_manager_get_property, tp_connection_manager_set_property, {},
    NoRelease, tp_connection_manager_finalize)

(* The readiness, the capabilities and the balance of TpConnection. *)
ConnectionBalanceProperties ==
  {"status-reason", "connection-ready", "capabilities", "balance", "balance-scale",
   "balance-currency", "balance-uri"}

(* What it shows of the contact list. *)
ConnectionContactListProperties ==
  {"contact-list-state", "contact-list-persists", "can-change-contact-list",
   "request-uses-message", "disjoint-groups", "group-storage"}

(* Its groups and blocked contacts. *)
ConnectionBlockingProperties ==
  {"contact-groups", "can-report-abusive", "blocked-contacts"}

tp_connection_class_init ==
  [NoProperties EXCEPT !.ro = {"status", "connection-manager-name", "cm-name", "protocol-name", "self-handle",
       "self-contact"}
       \cup ConnectionBalanceProperties
       \cup ConnectionContactListProperties
       \cup ConnectionBlockingProperties]

tp_connection_get_property ==
  Own({"connection-ready", "status", "status-reason", "balance", "balance-scale",
         "contact-list-state", "contact-list-persists", "can-change-contact-list",
         "request-uses-message", "disjoint-groups", "group-storage"})
    \cup Held({"connection-manager-name", "protocol-name", "capabilities",
         "balance-currency", "balance-uri", "contact-groups"})
    \cup {<<"cm-name", "connection-manager-name", "plain">>}
    \cup Computed({"self-contact", "self-handle", "can-report-abusive", "blocked-contacts"})

tp_connection_dispose ==
  ReleasesOnce({"capabilities", "contact-groups"}, {})

tp_connection_finalize ==
  {"connection-manager-name", "protocol-name", "balance-currency", "balance-uri"}

TpConnection ==
  Class("TpProxy", {},
    tp_connection_class_init, tp_connection_get_property, {}, {},
    tp_connection_dispose, tp_connection_finalize)

tp_contact_search_result_class_init ==
  [NoProperties EXCEPT !.once = {"identifier"}]

tp_contact_search_result_get_property ==
  Own({"identifier"})

tp_contact_search_result_set_property ==
  DupsOnce({"identifier"})

tp_contact_search_result_dispose ==
  Releases({"identifier"}, {})

TpContactSearchResult ==
  Class("GObject", {},
    tp_contact_search_result_class_init, tp_contact_search_result_get_property, tp_contact_search_result_set_property, {},
    tp_contact_search_result_dispose, {})

tp_contact_search_class_init ==
  [NoProperties EXCEPT !.ro = {"state"},
     !.rw = {"limit"},
     !.once = {"account", "server"}]

tp_contact_search_get_property ==
  Own({"account", "server", "limit", "state"})

tp_contact_search_set_property ==
  DupsOnce({"account", "server"})
    \cup Stores({"limit"})

tp_contact_search_dispose ==
  Releases({}, {"account"})

TpContactSearch ==
  Class("GObject", {},
    tp_contact_search_class_init, tp_contact_search_get_property, tp_contact_search_set_property, {},
    tp_contact_search_dispose, {})

(* The presence, location, capabilities and details of TpContact. *)
ContactPresenceProperties ==
  {"presence-type", "presence-status", "presence-message", "location", "location-vardict",
   "capabilities", "contact-info"}

(* Its client types, its subscription states and groups. *)
ContactSubscriptionProperties ==
  {"client-types", "subscribe-state", "publish-state", "publish-request",
   "contact-groups", "is-blocked"}

tp_contact_class_init ==
  [NoProperties EXCEPT !.ro = {"connection", "handle", "identifier", "alias", "avatar-token", "avatar-file",
       "avatar-mime-type"}
       \cup ContactPresenceProperties
       \cup ContactSubscriptionProperties]

tp_contact_get_property ==
  Own({"handle", "presence-type"})
    \cup Held({"connection", "identifier", "avatar-token", "avatar-file",
         "avatar-mime-type", "contact-info"})
    \cup Computed({"alias", "presence-status", "presence-message", "location",
         "location-vardict", "capabilities", "client-types", "subscribe-state",
         "publish-state", "publish-request", "contact-groups", "is-blocked"})

tp_contact_dispose ==
  Releases({"connection", "avatar-file"}, {})

tp_contact_finalize ==
  {"identifier", "avatar-token", "avatar-mime-type", "contact-info"}

TpContact ==
  Class("GObject", {},
    tp_contact_class_init, tp_contact_get_property, {}, {},
    tp_contact_dispose, tp_contact_finalize)

tp_dbus_tube_channel_class_init ==
  [NoProperties EXCEPT !.ro = {"service-name", "parameters", "parameters-vardict"}]

tp_dbus_tube_channel_get_property ==
  Held({"parameters"})
    \cup Computed({"service-name", "parameters-vardict"})

tp_dbus_tube_channel_dispose ==
  Releases({"parameters"}, {})

TpDBusTubeChannel ==
  Class("TpChannel", {},
    tp_dbus_tube_channel_class_init, tp_dbus_tube_channel_get_property, {}, {},
    tp_dbus_tube_channel_dispose, {})

tp_debug_client_class_init ==
  [NoProperties EXCEPT !.ro = {"enabled"}]

tp_debug_client_get_property ==
  Own({"enabled"})

TpDebugClient ==
  Class("TpProxy", {},
    tp_debug_client_class_init, tp_debug_client_get_property, {}, {},
    NoRelease, {})

tp_debug_message_class_init ==
  [NoProperties EXCEPT !.ro = {"time", "domain", "category", "level", "message"}]

tp_debug_message_get_property ==
  Computed({"time", "domain", "category", "level", "message"})

TpDebugMessage ==
  Class("GObject", {},
    tp_debug_message_class_init, tp_debug_message_get_property, {}, {},
    NoRelease, {})

(* How far the transfer is, and what it belongs to. *)
FileTransferProgressProperties ==
  {"transferred-bytes", "initial-offset", "service-name", "metadata"}

tp_file_transfer_channel_class_init ==
  [NoProperties EXCEPT !.ro = {"mime-type", "date", "description", "file", "filename", "size", "state"}
       \cup FileTransferProgressProperties]

tp_file_transfer_channel_get_property ==
  Own({"mime-type", "description", "filename", "size", "state", "transferred-bytes",
         "initial-offset", "service-name"})
    \cup Held({"date", "file", "metadata"})

tp_file_transfer_channel_dispose ==
  Releases({"date", "file", "metadata"}, {})

TpFileTransferChannel ==
  Class("TpChannel", {},
    tp_file_transfer_channel_class_init, tp_file_transfer_channel_get_property, {}, {},
    tp_file_transfer_channel_dispose, {})

tp_handle_channels_context_class_init ==
  [NoProperties EXCEPT !.once = {"account", "connection", "channels", "requests-satisfied",
       "user-action-time", "handler-info"},
     !.wonce = {"dbus-context"}]

tp_handle_channels_context_get_property ==
  Own({"account", "connection", "channels", "requests-satisfied", "user-action-time",
         "handler-info"})

tp_handle_channels_context_set_property ==
  Dups({"account", "connection", "channels", "requests-satisfied", "handler-info"})
    \cup Stores({"user-action-time", "dbus-context"})

tp_handle_channels_context_constructed ==
  {"account", "connection", "channels", "requests-satisfied", "handler-info",
   "dbus-context"}

tp_handle_channels_context_dispose ==
  Releases({"account", "connection", "channels", "requests-satisfied", "handler-info"}, {})

TpHandleChannelsContext ==
  Class("GObject", {},
    tp_handle_channels_context_class_init, tp_handle_channels_context_get_property, tp_handle_channels_context_set_property, tp_handle_channels_context_constructed,
    tp_handle_channels_context_dispose, {})

tp_observe_channels_context_class_init ==
  [NoProperties EXCEPT !.once = {"account", "connection", "channels", "dispatch-operation", "requests",
       "observer-info"},
     !.wonce = {"dbus-context"}]

tp_observe_channels_context_get_property ==
  Own({"account", "connection", "channels", "dispatch-operation", "requests",
         "observer-info"})

tp_observe_channels_context_set_property ==
  Dups({"account", "connection", "channels", "dispatch-operation", "requests",
         "observer-info"})
    \cup Stores({"dbus-context"})

tp_observe_channels_context_constructed ==
  {"account", "connection", "channels", "requests", "observer-info", "dbus-context"}

tp_observe_channels_context_dispose ==
  Releases({"account", "connection", "channels", "dispatch-operation", "requests",
   "observer-info"}, {})

TpObserveChannelsContext ==
  Class("GObject", {},
    tp_observe_channels_context_class_init, tp_observe_channels_context_get_property, tp_observe_channels_context_set_property, tp_observe_channels_context_constructed,
    tp_observe_channels_context_dispose, {})

(* The parameters, requirements and addresses of TpProtocol. *)
ProtocolParameterProperties ==
  {"param-names", "authentication-types", "avatar-requirements",
   "addressable-vcard-fields", "addressable-uri-schemes"}

tp_protocol_class_init ==
  [NoProperties EXCEPT !.ro = {"protocol-properties-vardict", "english-name", "vcard-field", "icon-name",
       "capabilities"}
       \cup ProtocolParameterProperties,
     !.once = {"protocol-name", "protocol-properties", "cm-name"}]

tp_protocol_get_property ==
  Own({"protocol-name", "protocol-properties"})
    \cup Computed({"protocol-properties-vardict", "english-name", "vcard-field",
         "icon-name", "capabilities", "param-names", "authentication-types",
         "avatar-requirements", "cm-name", "addressable-vcard-fields",
         "addressable-uri-schemes"})

tp_protocol_set_property ==
  DupsOnce({"protocol-name", "protocol-properties", "cm-name"})

tp_protocol_constructed ==
  {"protocol-name"}

tp_protocol_finalize ==
  {"protocol-name", "protocol-properties", "cm-name"}

TpProtocol ==
  Class("TpProxy", {},
    tp_protocol_class_init, tp_protocol_get_property, tp_protocol_set_property, tp_protocol_constructed,
    NoRelease, tp_protocol_finalize)

tp_proxy_class_init ==
  [NoProperties EXCEPT !.ro = {"interfaces"},
     !.once = {"dbus-daemon", "dbus-connection", "bus-name", "object-path", "factory"}]

tp_proxy_get_property ==
  Own({"dbus-connection", "bus-name", "object-path", "factory"})
    \cup Computed({"dbus-daemon", "interfaces"})

tp_proxy_set_property ==
  DupsOnce({"bus-name", "object-path", "factory"})
    \cup {<<"dbus-daemon", "dbus-daemon", {"held", "once"}>>,
         <<"dbus-daemon", "dbus-connection", {"held", "given", "unset", "agrees"}>>,
         <<"dbus-connection", "dbus-connection", {"held", "given", "unset", "agrees"}>>}

tp_proxy_dispose ==
  ReleasesOnce({"dbus-daemon", "dbus-connection", "factory"}, {})

tp_proxy_finalize ==
  {"bus-name", "object-path"}

TpProxy ==
  Class("GObject", {},
    tp_proxy_class_init, tp_proxy_get_property, tp_proxy_set_property, {},
    tp_proxy_dispose, tp_proxy_finalize)

tp_room_list_class_init ==
  [NoProperties EXCEPT !.ro = {"listing"},
     !.once = {"account", "server"}]

tp_room_list_get_property ==
  Own({"listing"})
    \cup Computed({"account", "server"})

tp_room_list_set_property ==
  DupsOnce({"account", "server"})

tp_room_list_dispose ==
  Releases({"account"}, {})

tp_room_list_finalize ==
  {"server"}

TpRoomList ==
  Class("GObject", {},
    tp_room_list_class_init, tp_room_list_get_property, tp_room_list_set_property, {},
    tp_room_list_dispose, tp_room_list_finalize)

tp_simple_approver_class_init ==
  [NoProperties EXCEPT !.wonce = {"callback", "user-data", "destroy"}]

tp_simple_approver_set_property ==
  Stores({"callback", "user-data", "destroy"})

tp_simple_approver_constructed ==
  {"callback"}

tp_simple_approver_dispose ==
  Releases({"user-data"}, {})

TpSimpleApprover ==
  Class("TpBaseClient", {},
    tp_simple_approver_class_init, {}, tp_simple_approver_set_property, tp_simple_approver_constructed,
    tp_simple_approver_dispose, {})

tp_simple_client_factory_class_init ==
  [NoProperties EXCEPT !.once = {"dbus-daemon"}]

tp_simple_client_factory_get_property ==
  Own({"dbus-daemon"})

tp_simple_client_factory_set_property ==
  DupsOnce({"dbus-daemon"})

tp_simple_client_factory_finalize ==
  {"dbus-daemon"}

TpSimpleClientFactory ==
  Class("GObject", {},
    tp_simple_client_factory_class_init, tp_simple_client_factory_get_property, tp_simple_client_factory_set_property, {},
    NoRelease, tp_simple_client_factory_finalize)

tp_simple_handler_class_init ==
  [NoProperties EXCEPT !.wonce = {"bypass-approval", "requests", "callback", "user-data", "destroy"}]

tp_simple_handler_set_property ==
  Stores({"callback", "user-data", "destroy"})
    \cup {<<"bypass-approval", "", {"ignored"}>>, <<"requests", "", {"ignored"}>>}

tp_simple_handler_constructed ==
  {"callback"}

tp_simple_handler_dispose ==
  Releases({"user-data"}, {})

TpSimpleHandler ==
  Class("TpBaseClient", {},
    tp_simple_handler_class_init, {}, tp_simple_handler_set_property, tp_simple_handler_constructed,
    tp_simple_handler_dispose, {})

tp_simple_observer_class_init ==
  [NoProperties EXCEPT !.wonce = {"recover", "callback", "user-data", "destroy"}]

tp_simple_observer_set_property ==
  Stores({"callback", "user-data", "destroy"})
    \cup {<<"recover", "", {"ignored"}>>}

tp_simple_observer_constructed ==
  {"callback"}

tp_simple_observer_dispose ==
  Releases({"user-data"}, {})

TpSimpleObserver ==
  Class("TpBaseClient", {},
    tp_simple_observer_class_init, {}, tp_simple_observer_set_property, tp_simple_observer_constructed,
    tp_simple_observer_dispose, {})

tp_stream_tube_channel_class_init ==
  [NoProperties EXCEPT !.ro = {"service", "parameters", "parameters-vardict"}]

tp_stream_tube_channel_get_property ==
  Held({"parameters"})
    \cup Computed({"service", "parameters-vardict"})

tp_stream_tube_channel_dispose ==
  Releases({"parameters"}, {})

TpStreamTubeChannel ==
  Class("TpChannel", {},
    tp_stream_tube_channel_class_init, tp_stream_tube_channel_get_property, {}, {},
    tp_stream_tube_channel_dispose, {})

tp_stream_tube_connection_class_init ==
  [NoProperties EXCEPT !.once = {"socket-connection", "channel", "contact"}]

tp_stream_tube_connection_get_property ==
  Own({"socket-connection", "channel", "contact"})

tp_stream_tube_connection_set_property ==
  DupsOnce({"socket-connection", "channel", "contact"})

tp_stream_tube_connection_constructed ==
  {"socket-connection"}

(* The contact is not given back. *)
ContactKept == Releases({"socket-connection", "channel"}, {})

tp_stream_tube_connection_dispose ==
  Releases({"socket-connection", "channel", "contact"}, {})

TpStreamTubeConnection ==
  Class("GObject", {},
    tp_stream_tube_connection_class_init, tp_stream_tube_connection_get_property, tp_stream_tube_connection_set_property, tp_stream_tube_connection_constructed,
    tp_stream_tube_connection_dispose, {})

tp_text_channel_class_init ==
  [NoProperties EXCEPT !.ro = {"supported-content-types", "message-part-support-flags",
       "delivery-reporting-support", "message-types", "is-sms-channel", "sms-flash"}]

tp_text_channel_get_property ==
  Computed({"supported-content-types", "message-part-support-flags",
         "delivery-reporting-support", "message-types", "is-sms-channel", "sms-flash"})

TpTextChannel ==
  Class("TpChannel", {},
    tp_text_channel_class_init, tp_text_channel_get_property, {}, {},
    NoRelease, {})

tp_tls_certificate_rejection_class_init ==
  [NoProperties EXCEPT !.once = {"reason", "dbus-error", "details", "error"}]

tp_tls_certificate_rejection_get_property ==
  Own({"reason", "dbus-error", "details", "error"})

tp_tls_certificate_rejection_set_property ==
  Stores({"reason"})
    \cup DupsOnce({"dbus-error"})
    \cup Dups({"details", "error"})

tp_tls_certificate_rejection_dispose ==
  Releases({}, {"details"})

tp_tls_certificate_rejection_finalize ==
  {"dbus-error"}

TpTLSCertificateRejection ==
  Class("GObject", {},
    tp_tls_certificate_rejection_class_init, tp_tls_certificate_rejection_get_property, tp_tls_certificate_rejection_set_property, {},
    tp_tls_certificate_rejection_dispose, tp_tls_certificate_rejection_finalize)

tp_tls_certificate_class_init ==
  [NoProperties EXCEPT !.ro = {"cert-type", "cert-data", "state"},
     !.once = {"parent"}]

tp_tls_certificate_get_property ==
  Own({"state", "parent"})
    \cup Held({"cert-type", "cert-data"})

tp_tls_certificate_set_property ==
  Dups({"parent"})

tp_tls_certificate_finalize ==
  {"cert-type", "cert-data"}

TpTLSCertificate ==
  Class("TpProxy", {},
    tp_tls_certificate_class_init, tp_tls_certificate_get_property, tp_tls_certificate_set_property, {},
    NoRelease, tp_tls_certificate_finalize)

----------------------------------------------------------------------------
(* The classes of connection managers, of the library and of the examples. *)

(* The state and the members of a call. *)
BaseCallStateProperties ==
  {"hardware-streaming", "call-state", "call-flags", "call-state-reason",
   "call-state-details", "call-members", "member-identifiers"}

tp_base_call_channel_class_init ==
  [NoProperties EXCEPT !.ro = {"contents"}
       \cup BaseCallStateProperties,
     !.once = {"initial-audio", "initial-video", "initial-audio-name",
       "initial-video-name", "initial-transport", "mutable-contents", "initial-tones"},
     !.extra = <<Served("ChannelTypeCall", Gobject, NULL, {<<"Contents", "contents">>,
       <<"CallStateDetails", "call-state-details">>, <<"CallState", "call-state">>,
       <<"CallFlags", "call-flags">>, <<"CallStateReason", "call-state-reason">>,
       <<"HardwareStreaming", "hardware-streaming">>, <<"CallMembers", "call-members">>,
       <<"MemberIdentifiers", "member-identifiers">>,
       <<"InitialTransport", "initial-transport">>, <<"InitialAudio", "initial-audio">>,
       <<"InitialVideo", "initial-video">>, <<"InitialAudioName", "initial-audio-name">>,
       <<"InitialVideoName", "initial-video-name">>,
       <<"MutableContents", "mutable-contents">>}), Served("ChannelInterfaceDtmf", Gobject,
       NULL, {<<"InitialTones", "initial-tones">>})>>]

tp_base_call_channel_get_property ==
  Own({"initial-audio", "initial-video", "initial-audio-name", "initial-video-name",
         "initial-transport", "mutable-contents", "call-state", "call-flags",
         "initial-tones"})
    \cup Held({"call-state-details", "call-state-reason", "call-members"})
    \cup Computed({"contents", "hardware-streaming", "member-identifiers"})

tp_base_call_channel_set_property ==
  Stores({"initial-audio", "initial-video", "initial-transport", "mutable-contents"})
    \cup Dups({"initial-audio-name", "initial-video-name", "initial-tones"})

tp_base_call_channel_dispose ==
  Releases({"call-members"}, {})

tp_base_call_channel_finalize ==
  {"initial-audio-name", "initial-video-name", "initial-tones", "call-state-details",
   "call-state-reason"}

TpBaseCallChannel ==
  Class("TpBaseChannel", {"ChannelTypeCall", "ChannelInterfaceDtmf"},
    tp_base_call_channel_class_init, tp_base_call_channel_get_property, tp_base_call_channel_set_property, {},
    tp_base_call_channel_dispose, tp_base_call_channel_finalize)

TpBaseMediaCallChannel ==
  Class("TpBaseCallChannel", {"ChannelInterfaceHold"},
    NoProperties, {}, {}, {}, NoRelease, {})

tp_base_call_content_class_init ==
  [NoProperties EXCEPT !.ro = {"interfaces", "streams", "currently-sending-tones", "deferred-tones"},
     !.once = {"object-path", "connection", "name", "media-type", "creator",
       "disposition"},
     !.static = <<Served("CallContent", Gobject, NULL, {<<"Interfaces", "interfaces">>,
       <<"Name", "name">>, <<"Type", "media-type">>, <<"Disposition", "disposition">>,
       <<"Streams", "streams">>}), Served("CallContentInterfaceDtmf", Gobject, NULL,
       {<<"CurrentlySendingTones", "currently-sending-tones">>,
       <<"DeferredTones", "deferred-tones">>})>>]

tp_base_call_content_get_property ==
  Own({"object-path", "connection", "name", "media-type", "creator", "disposition"})
    \cup Computed({"interfaces", "streams", "currently-sending-tones", "deferred-tones"})

tp_base_call_content_set_property ==
  Dups({"object-path", "connection", "name"})
    \cup Stores({"media-type", "creator", "disposition"})

tp_base_call_content_dispose ==
  Releases({"connection"}, {})

tp_base_call_content_finalize ==
  {"object-path", "name"}

TpBaseCallContent ==
  Class("GObject", {"DbusProperties", "CallContent", "CallContentInterfaceDtmf"},
    tp_base_call_content_class_init, tp_base_call_content_get_property, tp_base_call_content_set_property, {},
    tp_base_call_content_dispose, tp_base_call_content_finalize)

tp_base_call_stream_class_init ==
  [NoProperties EXCEPT !.ro = {"channel", "interfaces", "remote-members", "remote-member-identifiers",
       "can-request-receiving"},
     !.once = {"connection", "object-path", "content", "local-sending-state"},
     !.static = <<Served("CallStream", Gobject, NULL, {<<"Interfaces", "interfaces">>,
       <<"RemoteMembers", "remote-members">>,
       <<"RemoteMemberIdentifiers", "remote-member-identifiers">>,
       <<"LocalSendingState", "local-sending-state">>,
       <<"CanRequestReceiving", "can-request-receiving">>})>>]

tp_base_call_stream_get_property ==
  Own({"connection", "object-path", "content", "channel", "local-sending-state"})
    \cup Held({"remote-members"})
    \cup Computed({"remote-member-identifiers", "can-request-receiving", "interfaces"})

tp_base_call_stream_set_property ==
  Dups({"connection"})
    \cup DupsOver({"object-path"})
    \cup Stores({"local-sending-state"})
    \cup {<<"content", "content", {"given"}>>}

tp_base_call_stream_dispose ==
  Releases({"connection"}, {})

tp_base_call_stream_finalize ==
  {"object-path", "remote-members"}

TpBaseCallStream ==
  Class("GObject", {"DbusProperties", "CallStream"},
    tp_base_call_stream_class_init, tp_base_call_stream_get_property, tp_base_call_stream_set_property, {},
    tp_base_call_stream_dispose, tp_base_call_stream_finalize)

tp_base_channel_class_init ==
  [NoProperties EXCEPT !.ro = {"interfaces", "target-id", "initiator-id"},
     !.once = {"connection", "requested", "initiator-handle"},
     !.over = {"object-path", "channel-type", "handle-type", "handle",
       "channel-destroyed", "channel-properties"},
     !.static = <<Served("Channel", Gobject, NULL, {<<"TargetHandleType", "handle-type">>,
       <<"TargetHandle", "handle">>, <<"TargetID", "target-id">>,
       <<"ChannelType", "channel-type">>, <<"Interfaces", "interfaces">>,
       <<"Requested", "requested">>, <<"InitiatorHandle", "initiator-handle">>,
       <<"InitiatorID", "initiator-id">>})>>]

tp_base_channel_get_property ==
  Own({"object-path", "channel-type", "handle-type", "handle", "initiator-handle",
         "requested", "connection", "channel-destroyed"})
    \cup Computed({"target-id", "initiator-id", "interfaces", "channel-properties"})

tp_base_channel_set_property ==
  DupsOnce({"object-path"})
    \cup Stores({"handle", "initiator-handle", "requested"})
    \cup Dups({"connection"})
    \cup {<<"handle-type", "", {"ignored"}>>, <<"channel-type", "", {"ignored"}>>}

tp_base_channel_dispose ==
  ReleasesOnce({"connection"}, {})

tp_base_channel_finalize ==
  {"object-path"}

TpBaseChannel ==
  Class("GObject", {"ChannelIface", "ExportableChannel", "DbusProperties", "Channel"},
    tp_base_channel_class_init, tp_base_channel_get_property, tp_base_channel_set_property, {},
    tp_base_channel_dispose, tp_base_channel_finalize)

tp_legacy_protocol_class_init == NoProperties

TpLegacyProtocol ==
  Class("TpBaseProtocol", {},
    tp_legacy_protocol_class_init, {}, {}, {},
    NoRelease, {})

tp_base_connection_manager_class_init ==
  [NoProperties EXCEPT !.ro = {"interfaces", "protocols"},
     !.once = {"dbus-daemon"},
     !.extra = <<Served("ConnectionManager", Gobject, NULL, {<<"Protocols", "protocols">>,
       <<"Interfaces", "interfaces">>})>>]

tp_base_connection_manager_get_property ==
  Own({"dbus-daemon"})
    \cup Computed({"interfaces", "protocols"})

tp_base_connection_manager_set_property ==
  {<<"dbus-daemon", "dbus-daemon", {"held", "once"}>>}

tp_base_connection_manager_dispose ==
  ReleasesOnce({"dbus-daemon"}, {})

TpBaseConnectionManager ==
  Class("GObject", {"DbusProperties", "ConnectionManager"},
    tp_base_connection_manager_class_init, tp_base_connection_manager_get_property, tp_base_connection_manager_set_property, {},
    tp_base_connection_manager_dispose, {})

tp_base_connection_class_init ==
  [NoProperties EXCEPT !.ro = {"self-id", "interfaces", "dbus-status", "has-immortal-handles"},
     !.rw = {"self-handle"},
     !.once = {"protocol", "dbus-daemon", "account-path-suffix"},
     !.extra = <<Served("Connection", Gobject, NULL, {<<"SelfHandle", "self-handle">>,
       <<"SelfID", "self-id">>, <<"Status", "dbus-status">>, <<"Interfaces", "interfaces">>,
       <<"HasImmortalHandles", "has-immortal-handles">>}),
       Served("ConnectionInterfaceRequests", Custom, NULL, {<<"Channels", "Channels">>,
       <<"RequestableChannelClasses", "RequestableChannelClasses">>})>>]

tp_base_connection_get_property ==
  Own({"protocol", "self-handle", "self-id", "dbus-daemon", "account-path-suffix"})
    \cup Computed({"interfaces", "dbus-status", "has-immortal-handles"})

tp_base_connection_set_property ==
  DupsOver({"protocol"})
    \cup DupsOnce({"account-path-suffix"})
    \cup {<<"self-handle", "self-handle", {}>>, <<"self-handle", "self-id", {}>>,
         <<"dbus-daemon", "dbus-daemon", {"held", "once"}>>}

tp_base_connection_dispose ==
  ReleasesOnce({"dbus-daemon"}, {})

tp_base_connection_finalize ==
  {"protocol", "account-path-suffix"}

TpBaseConnection ==
  Class("GObject", {"Connection", "DbusProperties", "ConnectionInterfaceRequests"},
    tp_base_connection_class_init, tp_base_connection_get_property, tp_base_connection_set_property, {},
    tp_base_connection_dispose, tp_base_connection_finalize)

tp_base_contact_list_class_init ==
  [NoProperties EXCEPT !.rwc = {"download-at-connection"},
     !.once = {"connection"}]

tp_base_contact_list_get_property ==
  Own({"connection", "download-at-connection"})

tp_base_contact_list_set_property ==
  DupsOnce({"connection"})
    \cup Stores({"download-at-connection"})

tp_base_contact_list_constructed ==
  {"connection"}

tp_base_contact_list_dispose ==
  Releases({"connection"}, {})

TpBaseContactList ==
  Class("GObject", {},
    tp_base_contact_list_class_init, tp_base_contact_list_get_property, tp_base_contact_list_set_property, tp_base_contact_list_constructed,
    tp_base_contact_list_dispose, {})

tp_base_media_call_content_class_init ==
  [NoProperties EXCEPT !.ro = {"remote-media-descriptions", "local-media-descriptions",
       "media-description-offer", "current-dtmf-event", "current-dtmf-state"},
     !.once = {"packetization"},
     !.over = {"currently-sending-tones", "deferred-tones"},
     !.extra = <<Served("CallContentInterfaceMedia", Gobject, NULL,
       {<<"RemoteMediaDescriptions", "remote-media-descriptions">>,
       <<"LocalMediaDescriptions", "local-media-descriptions">>,
       <<"MediaDescriptionOffer", "media-description-offer">>,
       <<"Packetization", "packetization">>, <<"CurrentDTMFEvent", "current-dtmf-event">>,
       <<"CurrentDTMFState", "current-dtmf-state">>})>>]

tp_base_media_call_content_get_property ==
  Own({"packetization", "current-dtmf-event", "current-dtmf-state"})
    \cup Held({"remote-media-descriptions", "local-media-descriptions"})
    \cup Computed({"media-description-offer", "currently-sending-tones", "deferred-tones"})

tp_base_media_call_content_set_property ==
  Stores({"packetization"})

tp_base_media_call_content_dispose ==
  Releases({"remote-media-descriptions", "local-media-descriptions"}, {})

TpBaseMediaCallContent ==
  Class("TpBaseCallContent", {"CallContentInterfaceMedia"},
    tp_base_media_call_content_class_init, tp_base_media_call_content_get_property, tp_base_media_call_content_set_property, {},
    tp_base_media_call_content_dispose, {})

tp_base_media_call_stream_class_init ==
  [NoProperties EXCEPT !.ro = {"sending-state", "receiving-state", "local-candidates", "local-credentials",
       "stun-servers", "relay-info", "has-server-info", "endpoints", "ice-restart-pending"},
     !.once = {"transport"},
     !.extra = <<Served("CallStreamInterfaceMedia", Gobject, NULL,
       {<<"SendingState", "sending-state">>, <<"ReceivingState", "receiving-state">>,
       <<"Transport", "transport">>, <<"LocalCandidates", "local-candidates">>,
       <<"LocalCredentials", "local-credentials">>, <<"STUNServers", "stun-servers">>,
       <<"RelayInfo", "relay-info">>, <<"HasServerInfo", "has-server-info">>,
       <<"Endpoints", "endpoints">>, <<"ICERestartPending", "ice-restart-pending">>})>>]

tp_base_media_call_stream_get_property ==
  Own({"sending-state", "receiving-state", "transport", "has-server-info",
         "ice-restart-pending"})
    \cup Held({"local-candidates"})
    \cup Computed({"local-credentials", "stun-servers", "relay-info", "endpoints"})

tp_base_media_call_stream_set_property ==
  Stores({"transport"})

tp_base_media_call_stream_finalize ==
  {"local-candidates"}

TpBaseMediaCallStream ==
  Class("TpBaseCallStream", {"CallStreamInterfaceMedia"},
    tp_base_media_call_stream_class_init, tp_base_media_call_stream_get_property, tp_base_media_call_stream_set_property, {},
    NoRelease, tp_base_media_call_stream_finalize)

tp_base_password_channel_class_init ==
  [NoProperties EXCEPT !.ro = {"authentication-method", "available-mechanisms", "has-initial-data",
       "can-try-again", "sasl-status", "sasl-error", "sasl-error-details",
       "authorization-identity", "default-username", "default-realm"},
     !.once = {"may-save-response"},
     !.static = <<Served("ChannelTypeServerAuthentication", Gobject, NULL,
       {<<"AuthenticationMethod", "authentication-method">>}),
       Served("ChannelInterfaceSaslAuthentication", Gobject, NULL,
       {<<"AvailableMechanisms", "available-mechanisms">>,
       <<"HasInitialData", "has-initial-data">>, <<"CanTryAgain", "can-try-again">>,
       <<"SASLStatus", "sasl-status">>, <<"SASLError", "sasl-error">>,
       <<"SASLErrorDetails", "sasl-error-details">>,
       <<"AuthorizationIdentity", "authorization-identity">>,
       <<"DefaultUsername", "default-username">>, <<"DefaultRealm", "default-realm">>,
       <<"MaySaveResponse", "may-save-response">>})>>]

tp_base_password_channel_get_property ==
  Own({"sasl-status", "may-save-response"})
    \cup Held({"sasl-error", "sasl-error-details", "authorization-identity",
         "default-username", "default-realm"})
    \cup Computed({"authentication-method", "available-mechanisms", "has-initial-data",
         "can-try-again"})

tp_base_password_channel_set_property ==
  Stores({"may-save-response"})

tp_base_password_channel_finalize ==
  {"sasl-error", "sasl-error-details", "authorization-identity", "default-username",
   "default-realm"}

TpBasePasswordChannel ==
  Class("TpBaseChannel", {"ChannelTypeServerAuthentication", "ChannelInterfaceSaslAuthentication"},
    tp_base_password_channel_class_init, tp_base_password_channel_get_property, tp_base_password_channel_set_property, {},
    NoRelease, tp_base_password_channel_finalize)

tp_base_protocol_class_init ==
  [NoProperties EXCEPT !.ro = {"immutable-properties"},
     !.once = {"name"},
     !.static = <<Served("Protocol", Custom, NULL, {<<"Parameters", "Parameters">>,
       <<"Interfaces", "Interfaces">>, <<"ConnectionInterfaces", "ConnectionInterfaces">>,
       <<"RequestableChannelClasses", "RequestableChannelClasses">>,
       <<"VCardField", "VCardField">>, <<"EnglishName", "EnglishName">>, <<"Icon", "Icon">>,
       <<"AuthenticationTypes", "AuthenticationTypes">>}),
       Served("ProtocolInterfacePresence", Custom, NULL, {<<"Statuses", "Statuses">>}),
       Served("ProtocolInterfaceAvatars", Custom, NULL,
       {<<"SupportedAvatarMIMETypes", "SupportedAvatarMIMETypes">>,
       <<"MinimumAvatarHeight", "MinimumAvatarHeight">>,
       <<"MinimumAvatarWidth", "MinimumAvatarWidth">>,
       <<"RecommendedAvatarHeight", "RecommendedAvatarHeight">>,
       <<"RecommendedAvatarWidth", "RecommendedAvatarWidth">>,
       <<"MaximumAvatarHeight", "MaximumAvatarHeight">>,
       <<"MaximumAvatarWidth", "MaximumAvatarWidth">>,
       <<"MaximumAvatarBytes", "MaximumAvatarBytes">>}),
       Served("ProtocolInterfaceAddressing", Custom, NULL,
       {<<"AddressableVCardFields", "AddressableVCardFields">>,
       <<"AddressableURISchemes", "AddressableURISchemes">>})>>]

tp_base_protocol_get_property ==
  Own({"name"})
    \cup Computed({"immutable-properties"})

tp_base_protocol_set_property ==
  DupsOnce({"name"})

tp_base_protocol_finalize ==
  {"name"}

TpBaseProtocol ==
  Class("GObject", {"DbusProperties", "Protocol", "ProtocolInterfacePresence",
        "ProtocolInterfaceAvatars", "ProtocolInterfaceAddressing"},
    tp_base_protocol_class_init, tp_base_protocol_get_property, tp_base_protocol_set_property, {},
    NoRelease, tp_base_protocol_finalize)

tp_base_room_config_class_init ==
  [NoProperties EXCEPT !.ro = {"mutable-properties", "configuration-retrieved"},
     !.rw = {"anonymous", "invite-only", "limit", "moderated", "title", "description",
       "persistent", "private", "password-protected", "password", "password-hint",
       "can-update-configuration"},
     !.once = {"channel"}]

tp_base_room_config_get_property ==
  Own({"channel", "anonymous", "invite-only", "limit", "moderated", "persistent",
         "private", "password-protected", "can-update-configuration",
         "configuration-retrieved", "title", "description", "password", "password-hint"})
    \cup Computed({"mutable-properties"})

tp_base_room_config_set_property ==
  Stores({"anonymous", "invite-only", "limit", "moderated", "persistent", "private",
         "password-protected", "can-update-configuration"})
    \cup DupsOver({"title", "description", "password", "password-hint"})
    \cup {<<"channel", "channel", {"once"}>>}

tp_base_room_config_constructed ==
  {"channel"}

tp_base_room_config_finalize ==
  {"title", "description", "password", "password-hint"}

TpBaseRoomConfig ==
  Class("GObject", {},
    tp_base_room_config_class_init, tp_base_room_config_get_property, tp_base_room_config_set_property, tp_base_room_config_constructed,
    NoRelease, tp_base_room_config_finalize)

(* The RTP properties of a media description. *)
MediaDescriptionRtcpProperties ==
  {"codecs", "ssrcs", "header-extensions", "feedback-messages", "does-avpf",
   "loss-rle-max-size", "duplicate-rle-max-size", "packet-receipt-times-max-size"}

(* Its statistics. *)
MediaDescriptionStatisticsProperties ==
  {"dlrr-max-size", "rtt-mode", "statistics-flags", "enable-metrics"}

tp_call_content_media_description_class_init ==
  [NoProperties EXCEPT !.ro = {"interfaces"}
       \cup MediaDescriptionRtcpProperties
       \cup MediaDescriptionStatisticsProperties,
     !.once = {"object-path", "dbus-daemon", "further-negotiation-required",
       "has-remote-information", "remote-contact"},
     !.static = <<Served("CallContentMediaDescription", Gobject, NULL,
       {<<"Interfaces", "interfaces">>,
       <<"FurtherNegotiationRequired", "further-negotiation-required">>,
       <<"HasRemoteInformation", "has-remote-information">>, <<"Codecs", "codecs">>,
       <<"RemoteContact", "remote-contact">>, <<"SSRCs", "ssrcs">>}),
       Served("CallContentMediaDescriptionInterfaceRtpHeaderExtensions", Gobject, NULL,
       {<<"HeaderExtensions", "header-extensions">>}),
       Served("CallContentMediaDescriptionInterfaceRtcpFeedback", Gobject, NULL,
       {<<"FeedbackMessages", "feedback-messages">>, <<"DoesAVPF", "does-avpf">>}),
       Served("CallContentMediaDescriptionInterfaceRtcpExtendedReports", Gobject, NULL,
       {<<"LossRLEMaxSize", "loss-rle-max-size">>,
       <<"DuplicateRLEMaxSize", "duplicate-rle-max-size">>,
       <<"PacketReceiptTimesMaxSize", "packet-receipt-times-max-size">>,
       <<"DLRRMaxSize", "dlrr-max-size">>, <<"RTTMode", "rtt-mode">>,
       <<"StatisticsFlags", "statistics-flags">>, <<"EnableMetrics", "enable-metrics">>})>>]

tp_call_content_media_description_get_property ==
  Own({"object-path", "dbus-daemon", "further-negotiation-required",
         "has-remote-information", "remote-contact", "does-avpf", "loss-rle-max-size",
         "duplicate-rle-max-size", "packet-receipt-times-max-size", "dlrr-max-size",
         "rtt-mode", "statistics-flags", "enable-metrics"})
    \cup Held({"interfaces", "codecs", "ssrcs", "header-extensions", "feedback-messages"})

tp_call_content_media_description_set_property ==
  DupsOnce({"object-path", "dbus-daemon"})
    \cup Stores({"further-negotiation-required", "has-remote-information",
         "remote-contact"})

tp_call_content_media_description_dispose ==
  Releases({"dbus-daemon", "codecs", "ssrcs", "header-extensions", "feedback-messages"},
   {})

tp_call_content_media_description_finalize ==
  {"object-path", "interfaces"}

TpCallContentMediaDescription ==
  Class("GObject", {"CallContentMediaDescription", "DbusProperties",
        "CallContentMediaDescriptionInterfaceRtpHeaderExtensions",
        "CallContentMediaDescriptionInterfaceRtcpFeedback",
        "CallContentMediaDescriptionInterfaceRtcpExtendedReports"},
    tp_call_content_media_description_class_init, tp_call_content_media_description_get_property, tp_call_content_media_description_set_property, {},
    tp_call_content_media_description_dispose, tp_call_content_media_description_finalize)

(* The part of an endpoint in the ICE negotiation. *)
EndpointIceProperties ==
  {"controlling"}

tp_call_stream_endpoint_class_init ==
  [NoProperties EXCEPT !.ro = {"remote-credentials", "remote-candidates", "selected-candidate-pairs",
       "endpoint-state"}
       \cup EndpointIceProperties,
     !.once = {"object-path", "dbus-daemon", "transport", "is-ice-lite"},
     !.static = <<Served("CallStreamEndpoint", Gobject, NULL,
       {<<"RemoteCredentials", "remote-credentials">>,
       <<"RemoteCandidates", "remote-candidates">>,
       <<"SelectedCandidatePairs", "selected-candidate-pairs">>,
       <<"EndpointState", "endpoint-state">>, <<"Transport", "transport">>,
       <<"Controlling", "controlling">>, <<"IsICELite", "is-ice-lite">>})>>]

tp_call_stream_endpoint_get_property ==
  Own({"object-path", "dbus-daemon", "transport", "controlling", "is-ice-lite"})
    \cup Held({"remote-candidates", "selected-candidate-pairs", "endpoint-state"})
    \cup Computed({"remote-credentials"})

tp_call_stream_endpoint_set_property ==
  DupsOnce({"object-path", "dbus-daemon"})
    \cup Stores({"transport", "is-ice-lite"})

tp_call_stream_endpoint_dispose ==
  Releases({"dbus-daemon"}, {})

tp_call_stream_endpoint_finalize ==
  {"object-path", "remote-candidates", "selected-candidate-pairs", "endpoint-state"}

TpCallStreamEndpoint ==
  Class("GObject", {"CallStreamEndpoint", "DbusProperties"},
    tp_call_stream_endpoint_class_init, tp_call_stream_endpoint_get_property, tp_call_stream_endpoint_set_property, {},
    tp_call_stream_endpoint_dispose, tp_call_stream_endpoint_finalize)

tp_base_contact_list_channel_class_init ==
  [NoProperties EXCEPT !.once = {"manager"}]

tp_base_contact_list_channel_get_property ==
  Own({"manager"})

tp_base_contact_list_channel_set_property ==
  DupsOnce({"manager"})

tp_base_contact_list_channel_constructed ==
  {"manager"}

tp_base_contact_list_channel_dispose ==
  Releases({"manager"}, {})

TpBaseContactListChannel ==
  Class("TpBaseChannel", {"ChannelTypeContactList", "ChannelInterfaceGroup"},
    tp_base_contact_list_channel_class_init, tp_base_contact_list_channel_get_property, tp_base_contact_list_channel_set_property, tp_base_contact_list_channel_constructed,
    tp_base_contact_list_channel_dispose, {})

tp_contact_list_channel_class_init ==
  [NoProperties EXCEPT !.extra = tp_group_mixin_init_dbus_properties]

TpContactListChannel ==
  Class("TpBaseContactListChannel", {"ChannelInterfaceGroup", "Channel"},
    tp_contact_list_channel_class_init, {}, {}, {},
    NoRelease, {})

tp_contact_group_channel_class_init ==
  [NoProperties EXCEPT !.extra = tp_group_mixin_init_dbus_properties]

TpContactGroupChannel ==
  Class("TpBaseContactListChannel", {"ChannelInterfaceGroup", "Channel"},
    tp_contact_group_channel_class_init, {}, {}, {},
    NoRelease, {})

tp_debug_sender_class_init ==
  [NoProperties EXCEPT !.rw = {"enabled"},
     !.static = <<Served("Debug", Gobject, Gobject, {<<"Enabled", "enabled">>})>>]

tp_debug_sender_get_property ==
  Own({"enabled"})

tp_debug_sender_set_property ==
  Stores({"enabled"})

TpDebugSender ==
  Class("GObject", {"DbusProperties", "Debug"},
    tp_debug_sender_class_init, tp_debug_sender_get_property, tp_debug_sender_set_property, {},
    NoRelease, {})

tp_dynamic_handle_repo_class_init ==
  [NoProperties EXCEPT !.once = {"normalize-function", "default-normalize-context"},
     !.over = {"handle-type"}]

tp_dynamic_handle_repo_get_property ==
  Own({"handle-type", "normalize-function", "default-normalize-context"})

tp_dynamic_handle_repo_set_property ==
  Stores({"handle-type", "normalize-function", "default-normalize-context"})

TpDynamicHandleRepo ==
  Class("GObject", {"HandleRepoIface"},
    tp_dynamic_handle_repo_class_init, tp_dynamic_handle_repo_get_property, tp_dynamic_handle_repo_set_property, {},
    NoRelease, {})

tp_static_handle_repo_class_init ==
  [NoProperties EXCEPT !.once = {"handle-names"},
     !.over = {"handle-type"}]

tp_static_handle_repo_get_property ==
  Own({"handle-type"})
    \cup Computed({"handle-names"})

tp_static_handle_repo_set_property ==
  Stores({"handle-type"})
    \cup {<<"handle-names", "handle-names", {"held", "over"}>>}

tp_static_handle_repo_finalize ==
  {"handle-names"}

TpStaticHandleRepo ==
  Class("GObject", {"HandleRepoIface"},
    tp_static_handle_repo_class_init, tp_static_handle_repo_get_property, tp_static_handle_repo_set_property, {},
    NoRelease, tp_static_handle_repo_finalize)

tp_signalled_message_class_init ==
  [NoProperties EXCEPT !.once = {"sender"}]

tp_signalled_message_get_property ==
  Own({"sender"})

tp_signalled_message_set_property ==
  DupsOnce({"sender"})

tp_signalled_message_dispose ==
  Releases({"sender"}, {})

TpSignalledMessage ==
  Class("TpMessage", {},
    tp_signalled_message_class_init, tp_signalled_message_get_property, tp_signalled_message_set_property, {},
    tp_signalled_message_dispose, {})

tp_simple_password_manager_class_init ==
  [NoProperties EXCEPT !.once = {"connection"}]

tp_simple_password_manager_get_property ==
  Own({"connection"})

tp_simple_password_manager_set_property ==
  Stores({"connection"})

TpSimplePasswordManager ==
  Class("GObject", {},
    tp_simple_password_manager_class_init, tp_simple_password_manager_get_property, tp_simple_password_manager_set_property, {},
    NoRelease, {})

example_call_channel_class_init ==
  [NoProperties EXCEPT !.once = {"simulation-delay"}]

example_call_channel_get_property ==
  Own({"simulation-delay"})

example_call_channel_set_property ==
  Stores({"simulation-delay"})

ExampleCallChannel ==
  Class("TpBaseMediaCallChannel", {"ChannelInterfaceHold"},
    example_call_channel_class_init, example_call_channel_get_property, example_call_channel_set_property, {},
    NoRelease, {})

example_call_manager_class_init ==
  [NoProperties EXCEPT !.once = {"connection", "simulation-delay"}]

example_call_manager_get_property ==
  Own({"connection", "simulation-delay"})

example_call_manager_set_property ==
  Stores({"connection", "simulation-delay"})

ExampleCallManager ==
  Class("GObject", {},
    example_call_manager_class_init, example_call_manager_get_property, example_call_manager_set_property, {},
    NoRelease, {})

example_call_stream_class_init ==
  [NoProperties EXCEPT !.once = {"simulation-delay", "locally-requested", "handle"}]

example_call_stream_get_property ==
  Own({"simulation-delay", "locally-requested", "handle"})

example_call_stream_set_property ==
  Stores({"simulation-delay", "locally-requested", "handle"})

ExampleCallStream ==
  Class("TpBaseMediaCallStream", {},
    example_call_stream_class_init, example_call_stream_get_property, example_call_stream_set_property, {},
    NoRelease, {})

example_call_connection_class_init ==
  [NoProperties EXCEPT !.once = {"account", "simulation-delay"},
     !.extra = tp_contacts_mixin_class_init \o
       tp_presence_mixin_simple_presence_init_dbus_properties]

example_call_connection_get_property ==
  Own({"account", "simulation-delay"})

example_call_connection_set_property ==
  DupsOver({"account"})
    \cup Stores({"simulation-delay"})

example_call_connection_finalize ==
  {"account"}

ExampleCallConnection ==
  Class("TpBaseConnection", {"ConnectionInterfaceContacts", "ConnectionInterfacePresence",
        "ConnectionInterfaceSimplePresence"},
    example_call_connection_class_init, example_call_connection_get_property, example_call_connection_set_property, {},
    NoRelease, example_call_connection_finalize)

example_csh_connection_class_init ==
  [NoProperties EXCEPT !.once = {"account", "simulation-delay"},
     !.extra = tp_contacts_mixin_class_init]

example_csh_connection_get_property ==
  Own({"account", "simulation-delay"})

example_csh_connection_set_property ==
  Stores({"simulation-delay"})
    \cup {<<"account", "account", {"held", "over", "lower"}>>}

example_csh_connection_finalize ==
  {"account"}

ExampleCSHConnection ==
  Class("TpBaseConnection", {"ConnectionInterfaceContacts"},
    example_csh_connection_class_init, example_csh_connection_get_property, example_csh_connection_set_property, {},
    NoRelease, example_csh_connection_finalize)

example_csh_room_manager_class_init ==
  [NoProperties EXCEPT !.once = {"connection", "simulation-delay"}]

example_csh_room_manager_get_property ==
  Own({"connection", "simulation-delay"})

example_csh_room_manager_set_property ==
  Stores({"connection", "simulation-delay"})

ExampleCSHRoomManager ==
  Class("GObject", {},
    example_csh_room_manager_class_init, example_csh_room_manager_get_property, example_csh_room_manager_set_property, {},
    NoRelease, {})

example_csh_room_channel_class_init ==
  [NoProperties EXCEPT !.once = {"simulation-delay"},
     !.extra = tp_group_mixin_init_dbus_properties \o tp_message_mixin_init_dbus_properties(FALSE)]

example_csh_room_channel_get_property ==
  Own({"simulation-delay"})

example_csh_room_channel_set_property ==
  Stores({"simulation-delay"})

ExampleCSHRoomChannel ==
  Class("TpBaseChannel", {"ChannelTypeText", "ChannelInterfaceMessages", "ChannelInterfaceGroup"},
    example_csh_room_channel_class_init, example_csh_room_channel_get_property, example_csh_room_channel_set_property, {},
    NoRelease, {})

example_contact_list_connection_class_init ==
  [NoProperties EXCEPT !.once = {"account", "simulation-delay"},
     !.extra = tp_contacts_mixin_class_init \o
       tp_presence_mixin_simple_presence_init_dbus_properties \o
       tp_base_contact_list_mixin_class_init]

example_contact_list_connection_get_property ==
  Own({"account", "simulation-delay"})

example_contact_list_connection_set_property ==
  DupsOver({"account"})
    \cup Stores({"simulation-delay"})

example_contact_list_connection_finalize ==
  {"account"}

ExampleContactListConnection ==
  Class("TpBaseConnection", {"ConnectionInterfaceAliasing", "ConnectionInterfaceContacts",
        "ConnectionInterfaceContactList", "ConnectionInterfaceContactGroups",
        "ConnectionInterfaceContactBlocking", "ConnectionInterfacePresence",
        "ConnectionInterfaceSimplePresence"},
    example_contact_list_connection_class_init, example_contact_list_connection_get_property, example_contact_list_connection_set_property, {},
    NoRelease, example_contact_list_connection_finalize)

example_contact_list_class_init ==
  [NoProperties EXCEPT !.once = {"simulation-delay"}]

example_contact_list_get_property ==
  Own({"simulation-delay"})

example_contact_list_set_property ==
  Stores({"simulation-delay"})

ExampleContactList ==
  Class("TpBaseContactList", {},
    example_contact_list_class_init, example_contact_list_get_property, example_contact_list_set_property, {},
    NoRelease, {})

example_echo_2_channel_class_init ==
  [NoProperties EXCEPT !.ro = {"sms-flash"},
     !.once = {"sms"},
     !.extra = <<Served("ChannelInterfaceSms", Gobject, NULL, {<<"SMSChannel", "sms">>,
       <<"Flash", "sms-flash">>})>> \o tp_message_mixin_init_dbus_properties(TRUE)]

example_echo_2_channel_get_property ==
  Own({"sms"})
    \cup Computed({"sms-flash"})

example_echo_2_channel_set_property ==
  Stores({"sms"})

ExampleEcho2Channel ==
  Class("TpBaseChannel", {"ChannelTypeText", "ChannelInterfaceMessages", "ChannelInterfaceChatState",
        "ChannelInterfaceDestroyable", "ChannelInterfaceSms"},
    example_echo_2_channel_class_init, example_echo_2_channel_get_property, example_echo_2_channel_set_property, {},
    NoRelease, {})

example_echo_2_connection_class_init ==
  [NoProperties EXCEPT !.once = {"account"},
     !.extra = tp_contacts_mixin_class_init]

example_echo_2_connection_get_property ==
  Own({"account"})

example_echo_2_connection_set_property ==
  {<<"account", "account", {"held", "over", "lower"}>>}

example_echo_2_connection_finalize ==
  {"account"}

ExampleEcho2Connection ==
  Class("TpBaseConnection", {"ConnectionInterfaceContacts"},
    example_echo_2_connection_class_init, example_echo_2_connection_get_property, example_echo_2_connection_set_property, {},
    NoRelease, example_echo_2_connection_finalize)

example_echo_2_im_manager_class_init ==
  [NoProperties EXCEPT !.once = {"connection"}]

example_echo_2_im_manager_get_property ==
  Own({"connection"})

example_echo_2_im_manager_set_property ==
  Stores({"connection"})

ExampleEcho2ImManager ==
  Class("GObject", {},
    example_echo_2_im_manager_class_init, example_echo_2_im_manager_get_property, example_echo_2_im_manager_set_property, {},
    NoRelease, {})

example_extended_connection_class_init ==
  [NoProperties EXCEPT !.once = {"account"},
     !.extra = tp_contacts_mixin_class_init]

example_extended_connection_get_property ==
  Own({"account"})

example_extended_connection_set_property ==
  {<<"account", "account", {"held", "over", "lower"}>>}

example_extended_connection_finalize ==
  {"account"}

ExampleExtendedConnection ==
  Class("TpBaseConnection", {"ConnectionInterfaceContacts", "ExampleTypeSvcConnectionInterfaceHats"},
    example_extended_connection_class_init, example_extended_connection_get_property, example_extended_connection_set_property, {},
    NoRelease, example_extended_connection_finalize)

----------------------------------------------------------------------------
(* The properties that each interface has in the specification (src/spec), as the generated
   interface types carry them. *)
IfaceInfo ==
  [ChannelTypeCall |-> {"Contents", "CallStateDetails", "CallState", "CallFlags", "CallStateReason",
       "HardwareStreaming", "CallMembers", "MemberIdentifiers", "InitialTransport",
       "InitialAudio", "InitialVideo", "InitialAudioName", "InitialVideoName",
       "MutableContents"},
   ChannelInterfaceDtmf |-> {"CurrentlySendingTones", "InitialTones", "DeferredTones"},
   CallContent |-> {"Interfaces", "Name", "Type", "Disposition", "Streams"},
   CallContentInterfaceDtmf |-> {"CurrentlySendingTones", "DeferredTones"},
   CallStream |-> {"Interfaces", "RemoteMembers", "RemoteMemberIdentifiers", "LocalSendingState",
       "CanRequestReceiving"},
   Channel |-> {"ChannelType", "Interfaces", "TargetHandle", "TargetID", "TargetHandleType",
       "Requested", "InitiatorHandle", "InitiatorID"},
   Client |-> {"Interfaces"},
   ClientObserver |-> {"ObserverChannelFilter", "Recover", "DelayApprovers"},
   ClientApprover |-> {"ApproverChannelFilter"},
   ClientHandler |-> {"HandlerChannelFilter", "BypassApproval", "Capabilities", "HandledChannels"},
   ConnectionManager |-> {"Protocols", "Interfaces"},
   Connection |-> {"Interfaces", "SelfHandle", "SelfID", "Status", "HasImmortalHandles"},
   ConnectionInterfaceRequests |-> {"Channels", "RequestableChannelClasses"},
   CallContentInterfaceMedia |-> {"RemoteMediaDescriptions", "LocalMediaDescriptions", "MediaDescriptionOffer",
       "Packetization", "CurrentDTMFEvent", "CurrentDTMFState"},
   CallStreamInterfaceMedia |-> {"SendingState", "ReceivingState", "Transport", "LocalCandidates",
       "LocalCredentials", "STUNServers", "RelayInfo", "HasServerInfo", "Endpoints",
       "ICERestartPending"},
   ChannelTypeServerAuthentication |-> {"AuthenticationMethod"},
   ChannelInterfaceSaslAuthentication |-> {"AvailableMechanisms", "HasInitialData", "CanTryAgain", "SASLStatus", "SASLError",
       "SASLErrorDetails", "AuthorizationIdentity", "DefaultUsername", "DefaultRealm",
       "MaySaveResponse"},
   Protocol |-> {"Interfaces", "Parameters", "ConnectionInterfaces", "RequestableChannelClasses",
       "VCardField", "EnglishName", "Icon", "AuthenticationTypes"},
   ProtocolInterfacePresence |-> {"Statuses"},
   ProtocolInterfaceAvatars |-> {"SupportedAvatarMIMETypes", "MinimumAvatarHeight", "MinimumAvatarWidth",
       "RecommendedAvatarHeight", "RecommendedAvatarWidth", "MaximumAvatarHeight",
       "MaximumAvatarWidth", "MaximumAvatarBytes"},
   ProtocolInterfaceAddressing |-> {"AddressableVCardFields", "AddressableURISchemes"},
   CallContentMediaDescription |-> {"Interfaces", "FurtherNegotiationRequired", "HasRemoteInformation", "Codecs",
       "RemoteContact", "SSRCs"},
   CallContentMediaDescriptionInterfaceRtpHeaderExtensions |-> {"HeaderExtensions"},
   CallContentMediaDescriptionInterfaceRtcpFeedback |-> {"FeedbackMessages", "DoesAVPF"},
   CallContentMediaDescriptionInterfaceRtcpExtendedReports |-> {"LossRLEMaxSize", "DuplicateRLEMaxSize", "PacketReceiptTimesMaxSize", "DLRRMaxSize",
       "RTTMode", "StatisticsFlags", "EnableMetrics"},
   CallStreamEndpoint |-> {"RemoteCredentials", "RemoteCandidates", "SelectedCandidatePairs", "EndpointState",
       "Transport", "Controlling", "IsICELite"},
   Debug |-> {"Enabled"},
   ChannelInterfaceSms |-> {"Flash", "SMSChannel"},
   ChannelInterfaceChatState |-> {"ChatStates"},
   ChannelInterfaceGroup |-> {"GroupFlags", "HandleOwners", "LocalPendingMembers", "Members",
       "RemotePendingMembers", "SelfHandle", "MemberIdentifiers"},
   ChannelInterfaceMessages |-> {"SupportedContentTypes", "MessageTypes", "MessagePartSupportFlags",
       "PendingMessages", "DeliveryReportingSupport"},
   ConnectionInterfaceContacts |-> {"ContactAttributeInterfaces"},
   ConnectionInterfaceSimplePresence |-> {"Statuses", "MaximumStatusMessageLength"},
   ConnectionInterfaceContactList |-> {"ContactListState", "ContactListPersists", "CanChangeContactList",
       "RequestUsesMessage", "DownloadAtConnection"},
   ConnectionInterfaceContactGroups |-> {"DisjointGroups", "GroupStorage", "Groups"},
   ConnectionInterfaceContactBlocking |-> {"ContactBlockingCapabilities"}]

ClassOf ==
  [TpAccountChannelRequest |-> TpAccountChannelRequest,
   TpAccountRequest |-> TpAccountRequest, TpAccount |-> TpAccount,
   TpAddDispatchOperationContext |-> TpAddDispatchOperationContext,
   TpBaseCallChannel |-> TpBaseCallChannel, TpBaseCallContent |-> TpBaseCallContent,
   TpBaseCallStream |-> TpBaseCallStream, TpBaseChannel |-> TpBaseChannel,
   TpBaseClient |-> TpBaseClient, TpLegacyProtocol |-> TpLegacyProtocol,
   TpBaseConnectionManager |-> TpBaseConnectionManager,
   TpBaseConnection |-> TpBaseConnection, TpBaseContactList |-> TpBaseContactList,
   TpBaseMediaCallContent |-> TpBaseMediaCallContent,
   TpBaseMediaCallStream |-> TpBaseMediaCallStream,
   TpBasePasswordChannel |-> TpBasePasswordChannel, TpBaseProtocol |-> TpBaseProtocol,
   TpBaseRoomConfig |-> TpBaseRoomConfig, TpCallChannel |-> TpCallChannel,
   TpCallContentMediaDescription |-> TpCallContentMediaDescription,
   TpCallContent |-> TpCallContent, TpCallStreamEndpoint |-> TpCallStreamEndpoint,
   TpCallStream |-> TpCallStream, TpCapabilities |-> TpCapabilities,
   TpChannelDispatchOperation |-> TpChannelDispatchOperation,
   TpChannelRequest |-> TpChannelRequest, TpChannel |-> TpChannel,
   TpConnectionManager |-> TpConnectionManager, TpConnection |-> TpConnection,
   TpBaseContactListChannel |-> TpBaseContactListChannel,
   TpContactListChannel |-> TpContactListChannel,
   TpContactGroupChannel |-> TpContactGroupChannel,
   TpContactSearchResult |-> TpContactSearchResult, TpContactSearch |-> TpContactSearch,
   TpContact |-> TpContact, TpDBusTubeChannel |-> TpDBusTubeChannel,
   TpDebugClient |-> TpDebugClient, TpDebugMessage |-> TpDebugMessage,
   TpDebugSender |-> TpDebugSender, TpFileTransferChannel |-> TpFileTransferChannel,
   TpHandleChannelsContext |-> TpHandleChannelsContext,
   TpDynamicHandleRepo |-> TpDynamicHandleRepo, TpStaticHandleRepo |-> TpStaticHandleRepo,
   TpObserveChannelsContext |-> TpObserveChannelsContext, TpProtocol |-> TpProtocol,
   TpProxy |-> TpProxy, TpRoomList |-> TpRoomList,
   TpSignalledMessage |-> TpSignalledMessage, TpSimpleApprover |-> TpSimpleApprover,
   TpSimpleClientFactory |-> TpSimpleClientFactory, TpSimpleHandler |-> TpSimpleHandler,
   TpSimpleObserver |-> TpSimpleObserver,
   TpSimplePasswordManager |-> TpSimplePasswordManager,
   TpStreamTubeChannel |-> TpStreamTubeChannel,
   TpStreamTubeConnection |-> TpStreamTubeConnection, TpTextChannel |-> TpTextChannel,
   TpTLSCertificateRejection |-> TpTLSCertificateRejection,
   TpTLSCertificate |-> TpTLSCertificate, ExampleCallChannel |-> ExampleCallChannel,
   ExampleCallManager |-> ExampleCallManager, ExampleCallStream |-> ExampleCallStream,
   ExampleCallConnection |-> ExampleCallConnection,
   ExampleCSHConnection |-> ExampleCSHConnection,
   ExampleCSHRoomManager |-> ExampleCSHRoomManager,
   ExampleCSHRoomChannel |-> ExampleCSHRoomChannel,
   ExampleContactListConnection |-> ExampleContactListConnection,
   ExampleContactList |-> ExampleContactList, ExampleEcho2Channel |-> ExampleEcho2Channel,
   ExampleEcho2Connection |-> ExampleEcho2Connection,
   ExampleEcho2ImManager |-> ExampleEcho2ImManager,
   ExampleExtendedConnection |-> ExampleExtendedConnection,
   TpBaseMediaCallChannel |-> TpBaseMediaCallChannel]

----------------------------------------------------------------------------
Installed(init) == UNION {init[k] : k \in Kinds} \cup init.over

(* The interfaces' implementations with what class_init links them to. *)
Linked(impls, info) == [i \in DOMAIN impls |-> [impl |-> impls[i], info |-> info[impls[i].iface]]]

(* The structure of class c of the classes T: what GObject and the mixin look up.  The chain
   is the class and its ancestors, nearest first; an overriding property has the access of
   what it overrides; the owner of a property is the class whose get_property and
   set_property are called for it; a field is a class and the name of a property. *)
StructOf(c, T, info) ==
  LET Chain[k \in DOMAIN T] ==
        IF T[k].parent \in DOMAIN T THEN <<k>> \o Chain[T[k].parent] ELSE <<k>>
      chain == Chain[c]
      Class_ == [i \in DOMAIN chain |-> T[chain[i]]]
      All(Of(_)) == UNION {Of(Class_[i]) : i \in DOMAIN chain}
      declarations == All(LAMBDA k : {k.init} \cup {IfaceInit[i] : i \in k.ifaces \cap DOMAIN IfaceInit})
      properties == All(LAMBDA k : Installed(k.init))
      OfKind(ks) == {p \in properties : \E d \in declarations, k \in ks : p \in d[k]}
      owner == [p \in properties |-> Min({i \in DOMAIN chain : p \in Installed(Class_[i].init)})]
  IN [name |-> c,
      chain |-> chain,
      ifaces |-> All(LAMBDA k : k.ifaces),
      properties |-> properties,
      readable |-> OfKind({"ro", "rw", "rwc", "once"}),
      later |-> OfKind({"rw", "rwc", "w"}),
      atConstruction |-> OfKind({"rwc", "once", "wonce"}),
      needed |-> All(LAMBDA k : k.needs),
      owner |-> [p \in properties |-> chain[owner[p]]],
      get |-> [p \in properties |-> {r \in Class_[owner[p]].get : r[1] = p}],
      set |-> [p \in properties |-> {r \in Class_[owner[p]].set : r[1] = p}],
      fields |-> UNION {{<<chain[i], n>> : n \in ({r[2] : r \in Class_[i].get}
                            \cup {r[2] : r \in Class_[i].set}) \ {""}} : i \in DOMAIN chain},
      filled |-> UNION {{<<chain[i], r[2]>> : r \in {x \in Class_[i].get : x[3] = "held"}}
                          : i \in DOMAIN chain},
      dispose |-> [i \in DOMAIN chain |-> Class_[i].dispose],
      finalize |-> [i \in DOMAIN chain |-> Class_[i].finalize],
      served |-> FlattenSeq([i \in DOMAIN chain |->
                   Linked(Class_[i].init.static \o Class_[i].init.extra, info)])]

Structs(T, info) == [c \in DOMAIN T |-> StructOf(c, T, info)]

ClassStructs == Structs(ClassOf, IfaceInfo)
----------------------------------------------------------------------------
(* Objects. *)

NoObject == "none"

Allocated(class) ==
  [class |-> class,                          \* its class structure
   val |-> [f \in class.fields |-> NULL],
   own |-> [f \in class.fields |-> "none"],  \* what the field owns: none, held, freed
   last |-> [p \in class.properties |-> NULL], \* the last value written to each property
   bad |-> {},                              \* warnings, failed assertions, leaks, double frees
   disposals |-> 0,
   writes |-> 0,
   phase |-> "live"]

LowerCase == [Given |-> "given", Later |-> "later"]

(* One assignment of a set_property: it may ignore the value, or NULL, or keep what it has;
   assert that the field was unset or agrees; free the old value; and own the new one. *)
Put(o, r, v, s) ==
  LET f == <<o, r[2]>>
      how == r[3]
      ignored == "ignored" \in how \/ ("given" \in how /\ v = NULL)
      kept == ~ignored /\ "unset" \in how /\ s.val[f] # NULL
      faults ==
        (IF ~ignored /\ "once" \in how /\ s.val[f] # NULL THEN {<<"assertion", o, r[2]>>} ELSE {})
          \cup (IF kept /\ "agrees" \in how /\ s.val[f] # v THEN {<<"assertion", o, r[2]>>} ELSE {})
          \cup (IF ~ignored /\ ~kept /\ "over" \notin how /\ s.own[f] = "held" /\ "held" \in how
                THEN {<<"leak", o, r[2]>>} ELSE {})
      stored == IF "lower" \in how /\ v # NULL THEN LowerCase[v]
                ELSE IF "found" \in how /\ v = NULL THEN "found" ELSE v
  IN [s EXCEPT !.bad = @ \cup faults,
               !.val = IF ignored \/ kept THEN @ ELSE [@ EXCEPT ![f] = stored],
               !.own = IF ignored \/ kept \/ "held" \notin how THEN @
                       ELSE [@ EXCEPT ![f] = IF stored = NULL THEN "none" ELSE "held"]]

(* g_object_set_property, once GObject has found that the property may be written. *)
SetProperty(s, p, v) ==
  LET rows == s.class.set[p]
      o == s.class.owner[p]
  IN IF rows = {} THEN [s EXCEPT !.bad = @ \cup {<<"invalid", o, p>>}]
     ELSE FoldSet(LAMBDA r, t : Put(o, r, v, t), [s EXCEPT !.last[p] = v], rows)

(* g_object_get_property.  What is computed from elsewhere is not modelled. *)
GetProperty(s, p) ==
  LET rows == s.class.get[p]
      r == CHOOSE x \in rows : TRUE
  IN IF rows = {} THEN "invalid"
     ELSE IF r[3] = "computed" THEN "computed"
     ELSE s.val[<<s.class.owner[p], r[2]>>]

(* g_object_new with some of the construction properties; the others get their default. *)
Constructed(class, given) ==
  FoldSet(LAMBDA p, s : SetProperty(s, p, IF p \in given THEN "Given" ELSE NULL),
          Allocated(class), class.atConstruction)

(* The two ways of giving a channel request what it asks for exclude each other. *)
Alternatives == {"request", "request-vardict"}

MayBeGiven(class) ==
  LET all == class.atConstruction
      optional == all \ class.needed
      sets == {{}} \cup {{p} : p \in optional} \cup {optional}
                \cup {optional \ {p} : p \in Alternatives}
  IN {given \in {class.needed \cup g : g \in sets} : ~(Alternatives \subseteq given)}

(* The object sets what its own operations set. *)
Filled(s) ==
  LET F == {f \in s.class.filled : s.own[f] = "none"}
  IN [s EXCEPT !.val = [f \in DOMAIN @ |-> IF f \in F /\ @[f] = NULL THEN "filled" ELSE @[f]],
               !.own = [f \in DOMAIN @ |-> IF f \in F THEN "held" ELSE @[f]]]

(* Releasing fields of class k: those that are set to NULL, and those that are not. *)
Release(s, k, clears, drops) ==
  LET C == {<<k, n>> : n \in clears} \cap DOMAIN s.own
      D == {<<k, n>> : n \in drops} \cap DOMAIN s.own
  IN [s EXCEPT
        !.val = [f \in DOMAIN @ |-> IF f \in C THEN NULL ELSE @[f]],
        !.own = [f \in DOMAIN @ |-> IF f \in C THEN "none"
                                    ELSE IF f \in D /\ @[f] = "held" THEN "freed" ELSE @[f]],
        !.bad = @ \cup {<<"twice", f[1], f[2]>> : f \in {x \in C \cup D : s.own[x] = "freed"}}]

(* dispose of a class chains up, unless it returns because it has run: how far up the
   chain of classes it gets. *)
DisposesOf(s) ==
  LET stops == {i \in DOMAIN s.class.chain : s.disposals > 0 /\ s.class.dispose[i].once}
  IN IF stops = {} THEN DOMAIN s.class.chain ELSE 1 .. Min(stops) - 1

Disposed(s) ==
  FoldSet(LAMBDA i, t : Release(t, s.class.chain[i], s.class.dispose[i].clears,
                                s.class.dispose[i].drops),
          [s EXCEPT !.disposals = @ + 1, !.phase = "disposed"], DisposesOf(s))

Finalized(s) ==
  FoldSet(LAMBDA i, t : Release(t, s.class.chain[i], {}, s.class.finalize[i]),
          [s EXCEPT !.phase = "gone"], DOMAIN s.class.chain)

----------------------------------------------------------------------------
(* The D-Bus properties of an object. *)

find_iface_impl(class, iface) == SelectSeq(class.served, LAMBDA e : e.impl.iface = iface)

find_prop_impl(impl, name) == {d \in impl.props : d[1] = name}

(* link_interface accepts what a class serves: the class implements the interface, and the
   interface has the property. *)
link_interface(class, e) ==
  /\ e.impl.iface \in class.ifaces
  /\ {d[1] : d \in e.impl.props} \subseteq e.info

(* Every property served is readable; the only one that may be written is Debug's. *)
MayWrite(iface, name) == <<iface, name>> = <<"Debug", "Enabled">>

tp_dbus_properties_mixin_get(s, iface, name) ==
  LET found == find_iface_impl(s.class, iface)
      props == find_prop_impl(found[1].impl, name)
  IN IF found = <<>> THEN "NotImplemented"
     ELSE IF props = {} THEN "NotImplemented"
     ELSE IF found[1].impl.getter = Custom THEN "custom"
     ELSE GetProperty(s, (CHOOSE d \in props : TRUE)[2])

tp_dbus_properties_mixin_dup_all(s, iface) ==
  LET found == find_iface_impl(s.class, iface)
  IN IF found = <<>> THEN [n \in {} |-> NULL]
     ELSE [n \in {d[1] : d \in found[1].impl.props} |-> tp_dbus_properties_mixin_get(s, iface, n)]

(* Set: refused unless the interface and the property are known, the specification lets it
   be written and the class has a setter. *)
tp_dbus_properties_mixin_set(s, iface, name, v) ==
  LET found == find_iface_impl(s.class, iface)
      props == find_prop_impl(found[1].impl, name)
  IN IF found = <<>> THEN s
     ELSE IF props = {} \/ ~MayWrite(iface, name) \/ found[1].impl.setter = NULL THEN s
     ELSE SetProperty(s, (CHOOSE d \in props : TRUE)[2], v)

----------------------------------------------------------------------------
vars == <<self, made>>

SoundConstants == MaxWrites \in Nat /\ MaxDisposals \in Nat \ {0}

Init == self = NoObject /\ made = FALSE

New ==
  /\ ~made
  /\ \E class \in Range(ClassStructs) :
       \E given \in MayBeGiven(class) : self' = Constructed(class, given)
  /\ made' = TRUE

Writing == made /\ self.phase = "live" /\ self.writes < MaxWrites /\ UNCHANGED made

(* A program writes a property. *)
Write(p) ==
  /\ Writing
  /\ self' = [SetProperty(self, p, "Later") EXCEPT !.writes = @ + 1]

(* A D-Bus peer writes one. *)
SetOverDBus(iface, name) ==
  /\ Writing
  /\ self' = [tp_dbus_properties_mixin_set(self, iface, name, "Later") EXCEPT !.writes = @ + 1]

Fill == made /\ self.phase = "live" /\ Filled(self) # self /\ self' = Filled(self) /\ UNCHANGED made

Dispose ==
  /\ made /\ self.phase # "gone" /\ self.disposals < MaxDisposals
  /\ self' = Disposed(self)
  /\ UNCHANGED made

Finalize ==
  /\ made /\ self.phase = "disposed"
  /\ self' = Finalized(self)
  /\ UNCHANGED made

Next ==
  \/ New
  \/ \E p \in IF made THEN self.class.later ELSE {} : Write(p)
  \/ \E e \in IF made THEN ToSet(self.class.served) ELSE {} :
       \E d \in e.impl.props : SetOverDBus(e.impl.iface, d[1])
  \/ Fill \/ Dispose \/ Finalize

Spec == Init /\ [][Next]_vars

----------------------------------------------------------------------------
TypeOK ==
  made => /\ self.phase \in {"live", "disposed", "gone"}
          /\ self.disposals \in 0 .. MaxDisposals /\ self.writes \in 0 .. MaxWrites
          /\ \A f \in self.class.fields : self.own[f] \in {"none", "held", "freed"}

(* Every property that a class lets read or write has a case in the get_property or
   set_property that GObject calls for it: G_OBJECT_WARN_INVALID_PROPERTY_ID is never
   reached, whatever was overridden on the way. *)
NoInvalidProperty ==
  made => /\ \A b \in self.bad : b[1] # "invalid"
          /\ \A p \in self.class.readable : GetProperty(self, p) # "invalid"

(* The assertions of the setters ("construct only") hold in every order of writing. *)
SettersAssertionsHold == made => \A b \in self.bad : b[1] # "assertion"

(* Until the object is disposed of, a property reads as it was last written: no two
   properties share a field by mistake and no write is lost, except where the class ignores
   what is written (and reads it from elsewhere) or keeps a lower-case copy. *)
ReadsBack ==
  (made /\ self.phase = "live") =>
    \A p \in self.class.readable :
      LET rows == self.class.set[p]
          hows == UNION {r[3] : r \in rows}
      IN (rows # {} /\ "ignored" \notin hows /\ self.last[p] # NULL) =>
           GetProperty(self, p) \in
             {"computed", IF "lower" \in hows THEN LowerCase[self.last[p]] ELSE self.last[p]}

(* What an object owns when it is finalized has been given back, apart from these: the
   channel of a call content, the server of a contact search, the error of a certificate
   rejection, and the parent of a certificate whose parent was never invalidated. *)
KnownLeaks ==
  {<<"TpCallContent", "channel">>, <<"TpContactSearch", "server">>,
   <<"TpTLSCertificateRejection", "error">>, <<"TpTLSCertificate", "parent">>}

(* dispose and finalize of a class and its ancestors together release every reference and
   copy that the object took, and no setter drops one it replaces. *)
NothingLeaks ==
  made => /\ \A b \in self.bad : b[1] # "leak"
          /\ self.phase = "gone" =>
               {f \in self.class.fields : self.own[f] = "held"} \subseteq KnownLeaks

(* Those whose dispose releases a field, does not clear it, and may run again. *)
KnownTwice == {<<"TpContactSearch", "account">>, <<"TpTLSCertificateRejection", "details">>}

(* Nothing is released twice, also when dispose runs twice. *)
NothingFreedTwice ==
  made => \A b \in self.bad : b[1] = "twice" => <<b[2], b[3]>> \in KnownTwice

(* Properties of these interfaces that the classes leave out: the tones that are being sent
   are those of a content, not of its channel. *)
NotServed ==
  {<<"ChannelInterfaceDtmf", "CurrentlySendingTones">>, <<"ChannelInterfaceDtmf", "DeferredTones">>}

(* tp_dbus_properties_mixin_class_init finds every interface and property that a class
   serves, a Get of any property of such an interface is answered from a property that can
   be read, and GetAll has them all. *)
DBusPropertiesAnswer ==
  made =>
    \A i \in DOMAIN self.class.served :
      LET e == self.class.served[i]
      IN /\ link_interface(self.class, e)
         /\ {n \in e.info : <<e.impl.iface, n>> \notin NotServed}
              = DOMAIN tp_dbus_properties_mixin_dup_all(self, e.impl.iface)
         /\ \A n \in DOMAIN tp_dbus_properties_mixin_dup_all(self, e.impl.iface) :
              tp_dbus_properties_mixin_get(self, e.impl.iface, n) \notin {"NotImplemented", "invalid"}
============================================================================
