------------------------------- MODULE MCSenders --------------------------------
(* What the system sends of its own accord, for TLC: the five components share *)
(* no variable, so that a behaviour of one run is a behaviour of one of them.  *)
EXTENDS Outbound, Campaign, ScheduledPost, AgentCron, Reminder

VARIABLE part

vars == <<part, outboundVars, campaignVars, postVars, cronVars, reminderVars>>

Init ==
    /\ part \in {"outbound", "campaign", "post", "cron", "reminder"}
    /\ OutboundInit /\ CampaignInit /\ PostInit
    /\ CronInit /\ (part = "cron" \/ \A c \in Crons : nextCron[c] = NoCron)
    /\ ReminderInit
    /\ part = "reminder" \/ \A r \in Reminders : remindAt[r] = 0 /\ recurring[r]

Next ==
    /\ UNCHANGED part
    /\ \/ /\ part = "outbound" /\ OutboundNext
          /\ UNCHANGED <<campaignVars, postVars, cronVars, reminderVars>>
       \/ /\ part = "campaign" /\ CampaignNext
          /\ UNCHANGED <<outboundVars, postVars, cronVars, reminderVars>>
       \/ /\ part = "post" /\ PostNext
          /\ UNCHANGED <<outboundVars, campaignVars, cronVars, reminderVars>>
       \/ /\ part = "cron" /\ CronNext
          /\ UNCHANGED <<outboundVars, campaignVars, postVars, reminderVars>>
       \/ /\ part = "reminder" /\ ReminderNext
          /\ UNCHANGED <<outboundVars, campaignVars, postVars, cronVars>>

\* The fairness of each component; one that is not run has no step that is owed.
Spec == /\ Init /\ [][Next]_vars
        /\ OutboundFairness /\ CampaignFairness /\ PostFairness /\ CronFairness

TypeOK == /\ OutboundTypeOK /\ CampaignTypeOK /\ PostTypeOK /\ CronTypeOK
          /\ ReminderTypeOK
=============================================================================
