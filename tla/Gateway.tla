------------------------------- MODULE Gateway -------------------------------
(***************************************************************************)
(* The gateway and its channels, and what they promise together.           *)
(*                                                                         *)
(* The components share no state in their models: one of them is chosen in *)
(* the initial state, and only that one moves.  The reachable states are   *)
(* those of each component by itself.                                      *)
(***************************************************************************)
EXTENDS SharedProvisioning, BusinessConversations, InboundRouting,
        WechatChannel, WechatPolling, SharedChannels, Admins, BackendReplies

VARIABLE component      \* the component that moves

Parts ==
    {"provisioning", "conversations", "inbound", "wechat",
     "sharedChannels", "admins", "replies", "polling"}

GatewayInit ==
    /\ component \in Parts
    /\ PInit /\ BInit /\ RInit /\ WInit /\ ChannelsInit /\ AdminsInit
    /\ RepliesInit /\ PollingInit

GatewayNext ==
    \/ /\ component = "provisioning" /\ PNext
       /\ UNCHANGED <<component, conversationVars, routingVars, wechatVars,
                      channelsVars, adminVars, replyVars, pollingVars>>
    \/ /\ component = "conversations" /\ BNext
       /\ UNCHANGED <<component, provisioningVars, routingVars, wechatVars,
                      channelsVars, adminVars, replyVars, pollingVars>>
    \/ /\ component = "inbound" /\ RNext
       /\ UNCHANGED <<component, provisioningVars, conversationVars, wechatVars,
                      channelsVars, adminVars, replyVars, pollingVars>>
    \/ /\ component = "wechat" /\ WNext
       /\ UNCHANGED <<component, provisioningVars, conversationVars, routingVars,
                      channelsVars, adminVars, replyVars, pollingVars>>
    \/ /\ component = "sharedChannels" /\ ChannelsNext
       /\ UNCHANGED <<component, provisioningVars, conversationVars, routingVars,
                      wechatVars, adminVars, replyVars, pollingVars>>
    \/ /\ component = "admins" /\ AdminsNext
       /\ UNCHANGED <<component, provisioningVars, conversationVars, routingVars,
                      wechatVars, channelsVars, replyVars, pollingVars>>
    \/ /\ component = "replies" /\ RepliesNext
       /\ UNCHANGED <<component, provisioningVars, conversationVars, routingVars,
                      wechatVars, channelsVars, adminVars, pollingVars>>
    \/ /\ component = "polling" /\ PollingNext
       /\ UNCHANGED <<component, provisioningVars, conversationVars, routingVars,
                      wechatVars, channelsVars, adminVars, replyVars>>

GatewayVars == <<component, provisioningVars, conversationVars, routingVars,
                 wechatVars, channelsVars, adminVars, replyVars, pollingVars>>

GatewaySpec == GatewayInit /\ [][GatewayNext]_GatewayVars

-----------------------------------------------------------------------------
(* Every variable of the component that moves has its type. *)
GatewayTypeOK ==
    /\ component = "provisioning" => PTypeOK
    /\ component = "conversations" => BTypeOK
    /\ component = "inbound" => RTypeOK
    /\ component = "wechat" => WTypeOK
    /\ component = "sharedChannels" => ChannelsTypeOK
    /\ component = "admins" => AdminsTypeOK
    /\ component = "replies" => RepliesTypeOK
    /\ component = "polling" => PollingTypeOK

(* What a channel receives is handled once, whatever is delivered again,   *)
(* and not passed over.                                                    *)
MessagesAccounted == ReceivedOnce /\ PollingAccounts

(* What is answered, and from what: the backend that is selected, the      *)
(* history it is given, and the replies that are kept.                     *)
RepliesHold == BridgeSelectable /\ AskedAboutIt /\ AnswersKept
=============================================================================
