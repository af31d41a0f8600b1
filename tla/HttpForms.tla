----------------------------- MODULE HttpForms -----------------------------
(***************************************************************************)
(* The requests of the HTTP API and what each checks of itself.  A request  *)
(* has text fields, which Validate trims, and other fields (numbers, flags, *)
(* lists); it needs some of them.  What is needed is said twice: by the     *)
(* binding tags, which gin checks when it reads a body or a query, and by   *)
(* Validate, which every handler calls.                                     *)
(***************************************************************************)

\* A request that needs the fields checked, by its tags and by Validate alike.
Request(checked, text, other) ==
    [checked |-> checked, bound |-> checked, emails |-> {}, text |-> text, fields |-> text \cup other]

NoFields == Request({}, {}, {})

\* What a client tells about its device.
Device == {"DeviceUid", "DeviceName", "DeviceType", "OsName", "OsVersion",
           "AppVersion", "UserAgent", "IpAddress"}

\* Account

CallbackGoogleRequest == Request({"Code", "State", "DeviceUid"},
    {"Code", "State"} \cup Device,
    {})
ChangePasswordRequest == Request({"CurrentPassword", "NewPassword"},
    {"CurrentPassword", "NewPassword"}, {})
ConfirmVerifyEmailRequest == Request({"Token"}, {"Token"}, {})
CreatePresignedUrlRequest == NoFields
GetAvatarRequest == Request({"AccountID"}, {"AccountID"}, {})
GetProfileRequest == NoFields
LoginGoogleRequest == NoFields
LoginRequest == [Request({"Email", "Password", "DeviceUid"},
    {"Email", "Password"} \cup Device,
    {})
    EXCEPT !.emails = {"Email"}]
LogoutRequest == Request({}, {"Token"}, {})
RefreshRequest == Request({}, {"RefreshToken", "UserAgent", "IpAddress"}, {})
RegisterRequest == [Request({"DisplayName", "Email", "Password", "DeviceUid"},
    {"DisplayName", "Email", "Password"} \cup Device,
    {})
    EXCEPT !.emails = {"Email"}]
SearchUsersRequest == Request({"Q"}, {"Q"}, {"Limit", "Offset"})
UpdateProfileRequest == Request({"DisplayName"}, {"DisplayName", "Username", "AvatarObjectKey"},
    {})
VerifyEmailRequest == NoFields

\* Relationships

AcceptFriendRequestRequest == Request({"RequesterUserID"}, {"RequesterUserID"}, {})
BlockUserRequest == Request({"TargetUserID"}, {"TargetUserID"}, {})
CancelFriendRequestRequest == Request({"TargetUserID"}, {"TargetUserID"}, {})
FollowUserRequest == Request({"TargetUserID"}, {"TargetUserID"}, {})
GetMutualFriendsRequest == Request({"TargetUserID"}, {"TargetUserID", "Cursor"}, {"Limit"})
GetRelationshipStatusRequest == Request({"TargetUserID"}, {"TargetUserID"}, {})
GetRelationshipSummaryRequest == Request({"TargetUserID"}, {"TargetUserID"}, {})
ListBlockedUsersRequest == Request({}, {"Cursor"}, {"Limit"})
ListFollowersRequest == Request({}, {"UserID", "Cursor"}, {"Limit"})
ListFollowingRequest == Request({}, {"UserID", "Cursor"}, {"Limit"})
ListFriendsRequest == Request({}, {"UserID", "Cursor"}, {"Limit"})
ListIncomingFriendRequestsRequest == Request({}, {"Cursor"}, {"Limit"})
ListOutgoingFriendRequestsRequest == Request({}, {"Cursor"}, {"Limit"})
RejectFriendRequestRequest == Request({"RequesterUserID"}, {"RequesterUserID"}, {})
SendFriendRequestRequest == Request({"TargetUserID"}, {"TargetUserID"}, {})
UnblockUserRequest == Request({"TargetUserID"}, {"TargetUserID"}, {})
UnfollowUserRequest == Request({"TargetUserID"}, {"TargetUserID"}, {})
UnfriendUserRequest == Request({"TargetUserID"}, {"TargetUserID"}, {})

\* Rooms

AddChatMemberRequest == Request({"RoomID", "AccountID"}, {"RoomID", "AccountID", "Role"}, {})
CreateChatMessagePresignedURLRequest == Request({"RoomID", "MessageType", "FileName"},
    {"RoomID", "MessageType", "FileName", "MimeType"}, {})
CreateDirectConversationRequest == Request({"PeerAccountID"}, {"PeerAccountID"}, {})
CreateGroupChatRequest == Request({"Name"}, {"Name", "Description"}, {"MemberIDs"})
DeleteChatMessageRequest == Request({"MessageID"}, {"MessageID", "Scope"}, {})
EditChatMessageRequest == Request({"MessageID", "Message"}, {"MessageID", "Message"}, {})
ForwardChatMessageRequest == Request({"MessageID", "TargetRoomID"},
    {"MessageID", "TargetRoomID"}, {})
GetChatConversationRequest == Request({"RoomID"}, {"RoomID"}, {})
GetChatMessageMediaRequest == Request({"RoomID", "ObjectKey"}, {"RoomID", "ObjectKey"}, {})
GetChatPresenceRequest == Request({"AccountID"}, {"AccountID"}, {})
ListChatConversationsRequest == Request({}, {}, {"Limit", "Offset"})
ListChatMessagesRequest == Request({"RoomID"}, {"RoomID", "BeforeID", "BeforeAt"},
    {"Limit", "Ascending"})
MarkChatMessageStatusRequest == Request({"MessageID", "Status"}, {"MessageID", "Status"}, {})
PinChatMessageRequest == Request({"RoomID", "MessageID"}, {"RoomID", "MessageID"}, {})
RemoveChatMemberRequest == Request({"RoomID", "AccountID"}, {"RoomID", "AccountID"}, {})
SearchChatMentionsRequest == Request({"RoomID"}, {"RoomID", "Q"}, {"Limit"})
SendChatMessageRequest == Request({"RoomID"},
    {"RoomID", "Message", "MessageType", "ReplyToMessageID", "ForwardedFromMessageID", "FileName", "MimeType", "ObjectKey"},
    {"Mentions", "MentionAll", "FileSize"})
ToggleChatMessageReactionRequest == Request({"MessageID", "Emoji"}, {"MessageID", "Emoji"}, {})
UpdateGroupChatRequest == Request({"RoomID"}, {"RoomID", "Name", "Description"}, {})

\* Notifications

GetUnreadNotificationCountRequest == NoFields
ListNotificationRequest == Request({}, {"Cursor"}, {"Limit"})
MarkAllNotificationsReadRequest == NoFields
MarkNotificationReadRequest == [Request({"NotificationID"}, {"NotificationID"}, {})
    EXCEPT !.bound = {}]
SavePushSubscriptionRequest == Request({"Endpoint", "Keys"}, {"Endpoint"}, {"Keys"})

\* Payments

CreatePaymentRequest == Request({"Provider", "Amount", "Currency"}, {"Provider", "Currency"},
    {"Amount", "Metadata"})
ProcessWebhookRequest == Request({"Provider"}, {"Provider", "Signature"}, {"Payload"})

\* Ledger

GetAccountBalanceRequest == Request({"Currency"}, {"Currency"}, {})
GetTransactionRequest == Request({"TransactionID"}, {"TransactionID"}, {})
ListTransactionRequest == Request({}, {"Cursor", "Currency"}, {"Limit"})
TransferTransactionRequest == Request({"ToAccountID", "Currency", "Amount"},
    {"ToAccountID", "Currency"}, {"Amount", "Metadata"})
=============================================================================
