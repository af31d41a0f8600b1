------------------------------ MODULE HttpApi ------------------------------
(***************************************************************************)
(* One request over HTTP: the gateway checks the signature of its token     *)
(* unless the path is public, the core finds the route and, on a private    *)
(* one, the account; the handler reads the request from path, headers and   *)
(* body, checks it, dispatches it and writes the answer.  The client may    *)
(* send anything, and its token may run out on the way.                     *)
(*                                                                          *)
(* Limiting, idempotency and the choice of a backend come between the two   *)
(* checks of the token: see RateLimiter and Idempotency.                    *)
(***************************************************************************)
EXTENDS HttpForms, Naturals, Sequences, FiniteSets
SX == INSTANCE SequencesExt

CONSTANTS MaxOdd    \* bound: fields a client fills in an unusual way
ASSUME OddAssumption == MaxOdd \in Nat

\* A handler takes fields from the path and from headers, then reads a JSON body, a query,
\* the raw body or nothing into the same request.  Most handlers answer 400 themselves and
\* hand the error of a command on; the plain ones make a new error of everything.
Handler(path, headers, bind, request) ==
    [path |-> path, headers |-> headers, bind |-> bind, request |-> request, plain |-> FALSE]
PlainHandler(path, headers, bind, request) ==
    [Handler(path, headers, bind, request) EXCEPT !.plain = TRUE]

\* Account

callbackGoogleHandler == Handler({}, Device, "json", CallbackGoogleRequest)
changePasswordHandler == Handler({}, {}, "json", ChangePasswordRequest)
confirmVerifyEmailHandler == Handler({}, {}, "json", ConfirmVerifyEmailRequest)
createPresignedUrlHandler == Handler({}, {}, "none", CreatePresignedUrlRequest)
getAvatarHandler == Handler({"AccountID"}, {}, "none", GetAvatarRequest)
getProfileHandler == Handler({}, {}, "none", GetProfileRequest)
loginGoogleHandler == Handler({}, {}, "none", LoginGoogleRequest)
loginHandler == Handler({}, Device, "json", LoginRequest)
logoutHandler == Handler({}, {}, "json", LogoutRequest)
refreshHandler == Handler({}, {"UserAgent", "IpAddress"}, "json", RefreshRequest)
registerHandler == Handler({}, Device, "json", RegisterRequest)
searchUsersHandler == Handler({}, {}, "query", SearchUsersRequest)
updateProfileHandler == Handler({}, {}, "json", UpdateProfileRequest)
verifyEmailHandler == Handler({}, {}, "none", VerifyEmailRequest)

\* Relationships

acceptFriendRequestHandler == Handler({"RequesterUserID"}, {}, "none",
    AcceptFriendRequestRequest)
blockUserHandler == Handler({}, {}, "json", BlockUserRequest)
cancelFriendRequestHandler == Handler({"TargetUserID"}, {}, "none", CancelFriendRequestRequest)
followUserHandler == Handler({}, {}, "json", FollowUserRequest)
getMutualFriendsHandler == Handler({"TargetUserID"}, {}, "query", GetMutualFriendsRequest)
getRelationshipStatusHandler == Handler({"TargetUserID"}, {}, "none",
    GetRelationshipStatusRequest)
getRelationshipSummaryHandler == Handler({"TargetUserID"}, {}, "none",
    GetRelationshipSummaryRequest)
listBlockedUsersHandler == Handler({}, {}, "query", ListBlockedUsersRequest)
listFollowersHandler == Handler({}, {}, "query", ListFollowersRequest)
listFollowingHandler == Handler({}, {}, "query", ListFollowingRequest)
listFriendsHandler == Handler({}, {}, "query", ListFriendsRequest)
listIncomingFriendRequestsHandler == Handler({}, {}, "query", ListIncomingFriendRequestsRequest)
listOutgoingFriendRequestsHandler == Handler({}, {}, "query", ListOutgoingFriendRequestsRequest)
rejectFriendRequestHandler == Handler({"RequesterUserID"}, {}, "none",
    RejectFriendRequestRequest)
sendFriendRequestHandler == Handler({}, {}, "json", SendFriendRequestRequest)
unblockUserHandler == Handler({"TargetUserID"}, {}, "none", UnblockUserRequest)
unfollowUserHandler == Handler({"TargetUserID"}, {}, "none", UnfollowUserRequest)
unfriendUserHandler == Handler({"TargetUserID"}, {}, "none", UnfriendUserRequest)

\* Rooms

addChatMemberHandler == Handler({"RoomID"}, {}, "json", AddChatMemberRequest)
createChatMessagePresignedURLHandler == Handler({}, {}, "json",
    CreateChatMessagePresignedURLRequest)
createDirectConversationHandler == Handler({}, {}, "json", CreateDirectConversationRequest)
createGroupChatHandler == Handler({}, {}, "json", CreateGroupChatRequest)
deleteChatMessageHandler == Handler({"MessageID"}, {}, "json", DeleteChatMessageRequest)
editChatMessageHandler == Handler({"MessageID"}, {}, "json", EditChatMessageRequest)
forwardChatMessageHandler == Handler({"MessageID"}, {}, "json", ForwardChatMessageRequest)
getChatConversationHandler == Handler({"RoomID"}, {}, "none", GetChatConversationRequest)
getChatConversationMetadataHandler == Handler({"RoomID"}, {}, "none", GetChatConversationRequest)
getChatMessageMediaHandler == Handler({}, {}, "query", GetChatMessageMediaRequest)
getChatPresenceHandler == Handler({"AccountID"}, {}, "none", GetChatPresenceRequest)
listChatConversationsHandler == Handler({}, {}, "query", ListChatConversationsRequest)
listChatMessagesHandler == Handler({"RoomID"}, {}, "query", ListChatMessagesRequest)
markChatMessageStatusHandler == Handler({"MessageID"}, {}, "json", MarkChatMessageStatusRequest)
pinChatMessageHandler == Handler({"RoomID"}, {}, "json", PinChatMessageRequest)
removeChatMemberHandler == Handler({"RoomID", "AccountID"}, {}, "none", RemoveChatMemberRequest)
searchChatMentionsHandler == Handler({"RoomID"}, {}, "query", SearchChatMentionsRequest)
sendChatMessageHandler == Handler({}, {}, "json", SendChatMessageRequest)
toggleChatMessageReactionHandler == Handler({"MessageID"}, {}, "json",
    ToggleChatMessageReactionRequest)
updateGroupChatHandler == Handler({"RoomID"}, {}, "json", UpdateGroupChatRequest)

\* Notifications

getUnreadNotificationCountHandler == PlainHandler({}, {}, "none",
    GetUnreadNotificationCountRequest)
listNotificationHandler == PlainHandler({}, {}, "query", ListNotificationRequest)
markAllNotificationsReadHandler == PlainHandler({}, {}, "none", MarkAllNotificationsReadRequest)
markNotificationReadHandler == PlainHandler({"NotificationID"}, {}, "none",
    MarkNotificationReadRequest)
savePushSubscriptionHandler == PlainHandler({}, {}, "json", SavePushSubscriptionRequest)

\* Payments

createPaymentHandler == Handler({}, {}, "json", CreatePaymentRequest)
processWebhookHandler == Handler({"Provider"}, {"Signature"}, "raw", ProcessWebhookRequest)

\* Ledger

getAccountBalanceHandler == Handler({}, {}, "query", GetAccountBalanceRequest)
getTransactionHandler == Handler({"TransactionID"}, {}, "none", GetTransactionRequest)
listTransactionHandler == Handler({}, {}, "query", ListTransactionRequest)
transferTransactionHandler == Handler({}, {}, "json", TransferTransactionRequest)

-----------------------------------------------------------------------------
\* The routes below /api/v1.

Route(method, path, handler) == [method |-> method, path |-> path, handler |-> handler]

AccountPublicRoutes == {
    Route("POST", << "auth", "login" >>, loginHandler),
    Route("POST", << "auth", "register" >>, registerHandler),
    Route("POST", << "auth", "refresh" >>, refreshHandler),
    Route("POST", << "account", "verify-email", "confirm" >>, confirmVerifyEmailHandler),
    Route("POST", << "auth", "login-google" >>, loginGoogleHandler),
    Route("POST", << "auth", "login-google", "callback" >>, callbackGoogleHandler) }

AccountPrivateRoutes == {
    Route("POST", << "auth", "logout" >>, logoutHandler),
    Route("GET", << "account", "profile" >>, getProfileHandler),
    Route("PUT", << "account", "profile" >>, updateProfileHandler),
    Route("POST", << "account", "verify-email" >>, verifyEmailHandler),
    Route("PUT", << "account", "change-password" >>, changePasswordHandler),
    Route("GET", << "account", "avatar", ":account_id" >>, getAvatarHandler),
    Route("POST", << "account", "avatar", "presigned-url" >>, createPresignedUrlHandler),
    Route("GET", << "account", "search-users" >>, searchUsersHandler) }

RelationshipPrivateRoutes == {
    Route("POST", << "relationship", "friend-requests" >>, sendFriendRequestHandler),
    Route("DELETE", << "relationship", "friend-requests", ":target_user_id" >>, cancelFriendRequestHandler),
    Route("POST", << "relationship", "friend-requests", ":requester_user_id", "accept" >>, acceptFriendRequestHandler),
    Route("POST", << "relationship", "friend-requests", ":requester_user_id", "reject" >>, rejectFriendRequestHandler),
    Route("GET", << "relationship", "friend-requests", "incoming" >>, listIncomingFriendRequestsHandler),
    Route("GET", << "relationship", "friend-requests", "outgoing" >>, listOutgoingFriendRequestsHandler),
    Route("DELETE", << "relationship", "friends", ":target_user_id" >>, unfriendUserHandler),
    Route("GET", << "relationship", "friends" >>, listFriendsHandler),
    Route("POST", << "relationship", "follows" >>, followUserHandler),
    Route("DELETE", << "relationship", "follows", ":target_user_id" >>, unfollowUserHandler),
    Route("GET", << "relationship", "followers" >>, listFollowersHandler),
    Route("GET", << "relationship", "following" >>, listFollowingHandler),
    Route("POST", << "relationship", "blocks" >>, blockUserHandler),
    Route("DELETE", << "relationship", "blocks", ":target_user_id" >>, unblockUserHandler),
    Route("GET", << "relationship", "blocks" >>, listBlockedUsersHandler),
    Route("GET", << "relationship", "status", ":target_user_id" >>, getRelationshipStatusHandler),
    Route("GET", << "relationship", "mutual-friends", ":target_user_id" >>, getMutualFriendsHandler),
    Route("GET", << "relationship", "summary", ":target_user_id" >>, getRelationshipSummaryHandler) }

RoomPrivateRoutes == {
    Route("POST", << "chat", "direct" >>, createDirectConversationHandler),
    Route("POST", << "chat", "groups" >>, createGroupChatHandler),
    Route("PATCH", << "chat", "groups", ":room_id" >>, updateGroupChatHandler),
    Route("GET", << "chat", "conversations" >>, listChatConversationsHandler),
    Route("GET", << "chat", "conversations", ":room_id" >>, getChatConversationHandler),
    Route("GET", << "chat", "conversations", ":room_id", "metadata" >>, getChatConversationMetadataHandler),
    Route("GET", << "chat", "conversations", ":room_id", "messages" >>, listChatMessagesHandler),
    Route("GET", << "chat", "rooms", ":room_id", "mentions", "search" >>, searchChatMentionsHandler),
    Route("POST", << "chat", "messages", "presigned-url" >>, createChatMessagePresignedURLHandler),
    Route("GET", << "chat", "messages", "media" >>, getChatMessageMediaHandler),
    Route("POST", << "chat", "messages" >>, sendChatMessageHandler),
    Route("POST", << "chat", "messages", ":message_id", "reactions" >>, toggleChatMessageReactionHandler),
    Route("PATCH", << "chat", "messages", ":message_id" >>, editChatMessageHandler),
    Route("DELETE", << "chat", "messages", ":message_id" >>, deleteChatMessageHandler),
    Route("POST", << "chat", "messages", ":message_id", "forward" >>, forwardChatMessageHandler),
    Route("POST", << "chat", "messages", ":message_id", "status" >>, markChatMessageStatusHandler),
    Route("POST", << "chat", "rooms", ":room_id", "members" >>, addChatMemberHandler),
    Route("DELETE", << "chat", "rooms", ":room_id", "members", ":account_id" >>, removeChatMemberHandler),
    Route("POST", << "chat", "rooms", ":room_id", "pin" >>, pinChatMessageHandler),
    Route("GET", << "chat", "presence", ":account_id" >>, getChatPresenceHandler) }

NotificationPrivateRoutes == {
    Route("POST", << "notification", "push-subscriptions" >>, savePushSubscriptionHandler),
    Route("GET", << "notification", "list" >>, listNotificationHandler),
    Route("PATCH", << "notification", ":notification_id", "read" >>, markNotificationReadHandler),
    Route("PATCH", << "notification", "read-all" >>, markAllNotificationsReadHandler),
    Route("GET", << "notification", "unread-count" >>, getUnreadNotificationCountHandler) }

PaymentPublicRoutes == {
    Route("POST", << "payment", "webhooks", ":provider" >>, processWebhookHandler) }

PaymentPrivateRoutes == {
    Route("POST", << "payment", "intents" >>, createPaymentHandler) }

LedgerPrivateRoutes == {
    Route("GET", << "ledger", "wallet", "balance" >>, getAccountBalanceHandler),
    Route("GET", << "ledger", "transactions", ":transaction_id" >>, getTransactionHandler),
    Route("POST", << "ledger", "transfers" >>, transferTransactionHandler),
    Route("GET", << "ledger", "transactions" >>, listTransactionHandler) }

PublicRoutes == AccountPublicRoutes \cup PaymentPublicRoutes
PrivateRoutes ==
    UNION { AccountPrivateRoutes, RelationshipPrivateRoutes, RoomPrivateRoutes,
            NotificationPrivateRoutes, PaymentPrivateRoutes, LedgerPrivateRoutes }

\* The gateway's own list of public paths: exact ones and a prefix.
publicRouteRules ==
    [exact  |-> { << "account", "verify-email", "confirm" >>, << "auth", "login" >>,
                  << "auth", "login-google" >>, << "auth", "login-google", "callback" >>,
                  << "auth", "refresh" >>, << "auth", "register" >> },
     prefix |-> { << "payment", "webhooks" >> }]

isWhitelisted(path) ==
    \/ path \in publicRouteRules.exact
    \/ \E rule \in publicRouteRules.prefix : SX!IsStrictPrefix(rule, path)

-----------------------------------------------------------------------------

VARIABLES
    stage,    \* where the request is
    route,    \* the route its method and path lead to
    token,    \* what it carries: nothing, something forged, a refresh or an access token
    outdated,  \* the token's time is up
    sent,     \* for each field: what path or header say of it, and what the body does
    form,     \* the request structure of the handler
    actor,    \* the account is in the context
    command,  \* the outcome of the dispatched command: none, ok, refused or failed
    answers   \* the statuses written, in order

apiVars == << stage, route, token, outdated, sent, form, actor, command, answers >>

ApiInit ==
    /\ stage = "client" /\ route = {} /\ token = "none" /\ outdated = FALSE
    /\ sent = << >> /\ form = << >>
    /\ actor = FALSE /\ command = "none" /\ answers = << >>

\* What a client can put in a field: in the path or a header (which cannot be blank), and
\* in the body or the query, where a field can also be there and empty.
Early(h, f) ==
    IF f \in h.path THEN {"path", "blank"}
    ELSE IF f \in h.headers THEN {"header", "unset"} ELSE {"unset"}
Late(h, f) ==
    CASE h.bind \in {"json", "query"} ->
            {"unset", "empty", "body"} \cup IF f \in h.request.text THEN {"blank"} ELSE {}
      [] h.bind = "raw" /\ f = "Payload" -> {"empty", "body"}
      [] OTHER -> {"unset"}
Usual(h, f) ==
    << IF f \in h.path THEN "path" ELSE IF f \in h.headers THEN "header" ELSE "unset",
       IF f \notin h.path \cup h.headers /\ "body" \in Late(h, f) THEN "body" ELSE "unset" >>

\* The client sends a request.
Submit ==
    /\ stage = "client"
    /\ route' \in PublicRoutes \cup PrivateRoutes
    /\ token' \in {"none", "forged", "refresh", "access"} /\ outdated' \in BOOLEAN
    /\ LET h == route'.handler
           fs == h.request.fields
       IN  \E odd \in { S \in SUBSET fs : Cardinality(S) <= MaxOdd } :
           \E how \in [odd -> ({"path", "header", "blank", "unset"}
                               \X {"unset", "empty", "blank", "body"})] :
              /\ \A f \in odd : how[f] \in Early(h, f) \X Late(h, f)
              /\ sent' = [f \in fs |-> IF f \in odd THEN how[f] ELSE Usual(h, f)]
    /\ stage' = "gateway"
    /\ UNCHANGED << form, actor, command, answers >>

\* The gateway verifies the signature with the key of access tokens, and nothing else.
AuthMiddleware ==
    /\ stage = "gateway"
    /\ IF isWhitelisted(route.path) \/ token = "access"
       THEN stage' = "core" /\ UNCHANGED answers
       ELSE stage' = "answered" /\ answers' = Append(answers, "unauthorized")
    /\ UNCHANGED << route, token, outdated, sent, form, actor, command >>

\* ParseAccessToken: the signature, the kind and the time.
ParseAccessToken == token = "access" /\ ~outdated

\* On private routes the core puts the account in the context.
AuthenMiddleware ==
    /\ stage = "core"
    /\ CASE route \in PublicRoutes -> stage' = "bind" /\ UNCHANGED << actor, answers >>
         [] route \notin PublicRoutes /\ ParseAccessToken ->
                stage' = "bind" /\ actor' = TRUE /\ UNCHANGED answers
         [] OTHER -> stage' = "answered" /\ answers' = Append(answers, "unauthorized") /\ UNCHANGED actor
    /\ UNCHANGED << route, token, outdated, sent, form, command >>

\* Bad input: the handler answers itself, or leaves it to Wrap.  In both cases it returns,
\* with an error or without.
Reject ==
    /\ answers' = IF route.handler.plain THEN answers ELSE Append(answers, "bad request")
    /\ stage' = "return"

\* Path and headers first; then what the body or the query has, which may name the same
\* fields, and its tags.  It may also not be readable.
ShouldBind ==
    /\ stage = "bind"
    /\ LET q == route.handler.request
           value(f) == IF sent[f][2] # "unset" THEN sent[f][2]
                       ELSE IF sent[f][1] # "unset" THEN sent[f][1] ELSE "empty"
           tags == route.handler.bind \in {"json", "query"}
       IN  /\ form' = [f \in q.fields |-> value(f)]
           /\ \/ /\ tags => \A f \in q.bound : form'[f] # "empty"
                 /\ tags => \A f \in q.emails : form'[f] # "blank"
                 /\ stage' = "validate" /\ UNCHANGED answers
              \/ route.handler.bind # "none" /\ Reject
    /\ UNCHANGED << route, token, outdated, sent, actor, command >>

\* Normalize trims the text fields.
Normalize ==
    [f \in DOMAIN form |->
        IF f \in route.handler.request.text /\ form[f] = "blank" THEN "empty" ELSE form[f]]

Validate ==
    /\ stage = "validate"
    /\ form' = Normalize
    /\ IF \A f \in route.handler.request.checked : form'[f] # "empty"
       THEN stage' = "dispatch" /\ UNCHANGED answers
       ELSE Reject
    /\ UNCHANGED << route, token, outdated, sent, actor, command >>

\* The command succeeds, is refused with an error that has a status, or fails.
Dispatch ==
    /\ stage = "dispatch"
    /\ command' \in {"ok", "refused", "failed"}
    /\ stage' = "return"
    /\ UNCHANGED << route, token, outdated, sent, form, actor, answers >>

\* Wrap writes the answer if the handler has not.
Wrap ==
    /\ stage = "return"
    /\ stage' = "answered"
    /\ answers' = CASE answers # << >> -> answers
                    [] answers = << >> /\ command = "ok" -> << "ok" >>
                    [] answers = << >> /\ command = "refused" /\ ~route.handler.plain -> << "refused" >>
                    [] OTHER -> << "internal error" >>
    /\ UNCHANGED << route, token, outdated, sent, form, actor, command >>

TokenExpires ==
    /\ stage # "client" /\ token = "access" /\ ~outdated
    /\ outdated' = TRUE
    /\ UNCHANGED << stage, route, token, sent, form, actor, command, answers >>

ApiNext ==
    \/ Submit \/ AuthMiddleware \/ AuthenMiddleware \/ ShouldBind \/ Validate \/ Dispatch
    \/ Wrap \/ TokenExpires

-----------------------------------------------------------------------------
(* Properties *)

ApiTypeOK ==
    /\ stage \in {"client", "gateway", "core", "bind", "validate", "dispatch", "return", "answered"}
    /\ token \in {"none", "forged", "refresh", "access"}
    /\ outdated \in BOOLEAN /\ actor \in BOOLEAN
    /\ command \in {"none", "ok", "refused", "failed"}

\* Gateway and core keep a list of public routes each.  A request that needs no account is
\* turned away by neither, and one that needs an account is carried out only with an access
\* token; the core's list is authoritative, but the gateway's opens nothing beyond it.
ListsAgree ==
    /\ \A r \in PublicRoutes : isWhitelisted(r.path)
    /\ \A r \in PrivateRoutes : ~isWhitelisted(r.path)
    /\ stage = "answered" /\ answers[1] = "unauthorized" => route \in PrivateRoutes
    /\ command # "none" /\ route \in PrivateRoutes => actor /\ token = "access"

\* A command finds the fields its request needs, by tag or by check, neither missing nor
\* blank, also where the handler binds nothing and the tags are never looked at.
CommandsGetWholeRequests ==
    command # "none" =>
        LET q == route.handler.request
        IN  /\ \A f \in q.bound \cup q.checked : form[f] \notin {"empty", "blank"}
            /\ \A f \in q.text : form[f] # "blank"

\* The path names what a command works on, unless the body names it too.
PathNamesTheTarget ==
    command # "none" =>
        \A f \in route.handler.path : form[f] = IF sent[f][2] = "body" THEN "body" ELSE "path"

\* A request is answered once; it is a success exactly when the command succeeded, and
\* what the client got wrong is said to be its fault, except by the plain handlers.
OneTrueAnswer ==
    /\ Len(answers) <= 1
    /\ stage = "answered" =>
        /\ Len(answers) = 1
        /\ answers[1] = "ok" <=> command = "ok"
        /\ command = "none" /\ answers[1] = "internal error" => route.handler.plain

ApiIsSound ==
    /\ ApiTypeOK
    /\ ListsAgree
    /\ CommandsGetWholeRequests
    /\ PathNamesTheTarget
    /\ OneTrueAnswer
=============================================================================
