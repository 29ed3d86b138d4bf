--------------------------- MODULE MCOrchestrate ---------------------------
(* The stages of the common profile, for TLC. *)
EXTENDS Orchestrate, TLC

StateFlagFilesOrder == <<
    "orchestrate_stage_start", "salt_minions_ready", "hosts_files_updated",
    "required_system_hosts_online", "yum_repositories_configured",
    "sudo_configured", "ssh_service_ready", "ssh_keys_distributed",
    "jenkins_master_installed", "jenkins_slaves_connected",
    "jenkins_jobs_configured", "orchestrate_stage_stop">>

MCStages == {StateFlagFilesOrder[i] : i \in 1 .. Len(StateFlagFilesOrder)}

prerequisites ==
    [s \in MCStages |->
        CASE s = "orchestrate_stage_start" -> {}
          [] s = "salt_minions_ready" -> {"orchestrate_stage_start"}
          [] s = "hosts_files_updated" -> {"salt_minions_ready"}
          [] s = "required_system_hosts_online" -> {"salt_minions_ready", "hosts_files_updated"}
          [] s = "yum_repositories_configured" ->
                {"hosts_files_updated", "required_system_hosts_online"}
          [] s = "sudo_configured" -> {"salt_minions_ready", "yum_repositories_configured"}
          [] s = "ssh_service_ready" -> {"salt_minions_ready", "yum_repositories_configured"}
          [] s = "ssh_keys_distributed" ->
                {"required_system_hosts_online", "salt_minions_ready", "ssh_service_ready"}
          [] s = "jenkins_master_installed" ->
                {"ssh_keys_distributed", "yum_repositories_configured"}
          [] s = "jenkins_slaves_connected" ->
                {"required_system_hosts_online", "jenkins_master_installed",
                 "ssh_service_ready", "ssh_keys_distributed"}
          [] s = "jenkins_jobs_configured" ->
                {"jenkins_master_installed", "jenkins_slaves_connected"}
          [] s = "orchestrate_stage_stop" -> MCStages \ {"orchestrate_stage_stop"}]

MCStageOf ==
    "install_stage_flag_files_firectory" :> "orchestrate_stage_start"
    @@ "minions_refresh_pillar" :> "salt_minions_ready"
    @@ "configure_minions_on_all_minions" :> "salt_minions_ready"
    @@ "minions_sync_all" :> "salt_minions_ready"
    @@ "minimal_configuration_for_all_minions" :> "salt_minions_ready"
    @@ "configure_hosts_files_everywhere" :> "hosts_files_updated"
    @@ "ping_all_online_hosts_for_remote_connections" :> "required_system_hosts_online"
    @@ "ping_all_minions_to_ensure_availability" :> "required_system_hosts_online"
    @@ "configure_yum_repositories_everywhere" :> "yum_repositories_configured"
    @@ "configure_sudo_for_required_users" :> "sudo_configured"
    @@ "install_and_configure_ssh_server" :> "ssh_service_ready"
    @@ "distribute_primary_user_ssh_private_key_everywhere" :> "ssh_keys_distributed"
    @@ "distribute_primary_user_ssh_pubic_key_everywhere" :> "ssh_keys_distributed"
    @@ "accept_all_ssh_host_keys_everywhere" :> "ssh_keys_distributed"
    @@ "configure_jenkins_master_role" :> "jenkins_master_installed"
    @@ "install_jenkins_plugins" :> "jenkins_master_installed"
    @@ "configure_jenkins_slaves" :> "jenkins_slaves_connected"
    @@ "configure_jenkins_nodes" :> "jenkins_slaves_connected"
    @@ "configure_jenkins_jobs" :> "jenkins_jobs_configured"
    @@ "run_highstate_on_all_minions" :> "orchestrate_stage_stop"

MCSaltStates == DOMAIN MCStageOf

MCNeeds ==
    "configure_minions_on_all_minions" :> {"minions_refresh_pillar"}
    @@ "minions_sync_all" :> {"configure_minions_on_all_minions"}
    @@ "minimal_configuration_for_all_minions" :> {"minions_sync_all"}
    @@ "accept_all_ssh_host_keys_everywhere" :>
          {"distribute_primary_user_ssh_private_key_everywhere",
           "distribute_primary_user_ssh_pubic_key_everywhere"}
    @@ "install_jenkins_plugins" :> {"configure_jenkins_master_role"}
    @@ "configure_jenkins_nodes" :> {"configure_jenkins_slaves"}
    @@ [x \in MCSaltStates |-> {}]

\* orchestrate_dep_list: all states of the stage but one.
MCDeps ==
    [s \in MCStages |->
        {x \in MCSaltStates : MCStageOf[x] = s}
            \ {"ping_all_minions_to_ensure_availability"}]

MCUnguarded == {"minions_refresh_pillar", "minions_sync_all"}

\* As configured, and as the comment on salt_minions_ready has it.
MCAutoCreations == {MCStages, MCStages \ {"salt_minions_ready"}}

\* The order of the common profile, all of whose features are enabled, suits the
\* prerequisites and the needs of its stages.
ASSUME ProfileSuits == OrderSuits
=============================================================================
