------------------------------ MODULE FieldMaps ------------------------------
(***************************************************************************)
(* The field tables of the formatters (leef.py, formatters.py, qradar.py). *)
(* A map lists <<field of the record, key in the line>> in the code's      *)
(* order, which matters where two fields share a key.  A choice lists      *)
(* <<key in the line, fields>>: the first field with a value is taken.     *)
(***************************************************************************)
EXTENDS Sequences

Streams == {"alerts", "incidents", "mgmt_audits", "agent_audits"}

(* ..._LEEF_FIELD_MAP *)
LeefMap == [
    alerts |-> <<
        <<"alert_id", "eventId">>, <<"name", "cat">>, <<"description", "reason">>,
        <<"severity", "sev">>, <<"action", "act">>, <<"detection_timestamp", "devTime">>,
        <<"last_modified_ts", "devTimeEnd">>, <<"host_name", "devName">>, <<"host_ip", "src">>,
        <<"endpoint_id", "cs1">>, <<"source", "cs2">>, <<"category", "cs3">>,
        <<"user_name", "usrName">> >>,
    incidents |-> <<
        <<"incident_id", "eventId">>, <<"incident_name", "cat">>, <<"description", "reason">>,
        <<"severity", "sev">>, <<"status", "act">>, <<"creation_time", "devTime">>,
        <<"modification_time", "devTimeEnd">>, <<"assigned_user_mail", "usrName">>,
        <<"assigned_user_pretty_name", "duser">>, <<"resolve_comment", "cs1">>,
        <<"manual_description", "cs2">>, <<"xdr_url", "cs3">>, <<"rule_based_score", "cn1">> >>,
    mgmt_audits |-> <<
        <<"AUDIT_ID", "eventId">>, <<"AUDIT_OWNER_EMAIL", "usrName">>,
        <<"AUDIT_OWNER_NAME", "userName">>, <<"AUDIT_SOURCE_IP", "src">>, <<"AUDIT_ENTITY", "cat">>,
        <<"AUDIT_ENTITY_SUBTYPE", "catdt">>, <<"AUDIT_RESULT", "act">>,
        <<"AUDIT_DESCRIPTION", "reason">>, <<"AUDIT_SEVERITY", "sev">>,
        <<"AUDIT_INSERT_TIME", "devTime">>, <<"AUDIT_HOSTNAME", "devName">> >>,
    agent_audits |-> <<
        <<"ENDPOINTID", "eventId">>, <<"ENDPOINTNAME", "devName">>, <<"DOMAIN", "domain">>,
        <<"CATEGORY", "cat">>, <<"TYPE", "catdt">>, <<"SUBTYPE", "catdtSub">>, <<"RESULT", "act">>,
        <<"REASON", "reason">>, <<"DESCRIPTION", "msg">>, <<"TIMESTAMP", "devTime">>,
        <<"RECEIVEDTIME", "devTimeEnd">>, <<"TRAPSVERSION", "agentVersion">> >>]

(* ..._CEF_EXT_MAP *)
CefMap == [
    alerts |-> <<
        <<"alert_id", "externalId">>, <<"name", "cat">>, <<"description", "msg">>,
        <<"severity", "sev">>, <<"action", "act">>, <<"detection_timestamp", "rt">>,
        <<"last_modified_ts", "end">>, <<"host_name", "dvc">>, <<"host_ip", "src">>,
        <<"endpoint_id", "cs1">>, <<"source", "cs2">>, <<"category", "cs3">>,
        <<"user_name", "suser">>, <<"sha256", "fileHash">>, <<"file_sha256", "fileHash">>,
        <<"causality_actor_process_image_sha256", "fileHash">>, <<"file_path", "filePath">>,
        <<"causality_actor_process_image_path", "filePath">> >>,
    incidents |-> <<
        <<"incident_id", "externalId">>, <<"incident_name", "cat">>, <<"description", "msg">>,
        <<"severity", "sev">>, <<"status", "act">>, <<"creation_time", "rt">>,
        <<"modification_time", "end">>, <<"assigned_user_mail", "suser">>,
        <<"assigned_user_pretty_name", "duser">>, <<"resolve_comment", "cs1">>,
        <<"manual_description", "cs2">>, <<"xdr_url", "cs3">>, <<"rule_based_score", "cn1">> >>,
    mgmt_audits |-> <<
        <<"AUDIT_SOURCE_IP", "src">>, <<"AUDIT_OWNER_EMAIL", "suser">>, <<"AUDIT_OWNER_NAME", "suid">>,
        <<"AUDIT_RESULT", "act">>, <<"AUDIT_DESCRIPTION", "msg">>, <<"AUDIT_INSERT_TIME", "rt">>,
        <<"AUDIT_HOSTNAME", "dvc">>, <<"AUDIT_SESSION_ID", "sessionId">> >>,
    agent_audits |-> <<
        <<"ENDPOINTNAME", "dvc">>, <<"DOMAIN", "customerExternalID">>, <<"RESULT", "act">>,
        <<"REASON", "reason">>, <<"DESCRIPTION", "msg">>, <<"TIMESTAMP", "rt">>,
        <<"RECEIVEDTIME", "end">> >>]

(* ..._EPOCH_MS_FIELDS: timestamps outside the maps. *)
EpochFields == [
    alerts       |-> {"local_insert_ts", "end_match_attempt_ts", "resolved_timestamp"},
    incidents    |-> {"detection_time", "resolved_timestamp"},
    mgmt_audits  |-> {},
    agent_audits |-> {}]

(* The timestamps of the maps, which to_json converts too. *)
PrimaryTimes == [
    alerts       |-> {"detection_timestamp", "last_modified_ts", "local_insert_ts"},
    incidents    |-> {"creation_time", "modification_time", "detection_time", "resolved_timestamp"},
    mgmt_audits  |-> {"AUDIT_INSERT_TIME"},
    agent_audits |-> {"TIMESTAMP", "RECEIVEDTIME"}]

(* The fields a CEF header takes its signature and its name from. *)
CefHead == [
    alerts       |-> <<"alert_id", "name">>,
    incidents    |-> <<"incident_id", "incident_name">>,
    mgmt_audits  |-> <<"AUDIT_ID", "AUDIT_ENTITY">>,
    agent_audits |-> <<"ENDPOINTID", "CATEGORY">>]

(* _event_name *)
EventName == [
    alerts       |-> <<"category", "name", "source", "alert_id">>,
    incidents    |-> <<"incident_name", "status", "incident_id">>,
    mgmt_audits  |-> <<"AUDIT_ENTITY_SUBTYPE", "AUDIT_ENTITY", "AUDIT_ID">>,
    agent_audits |-> <<"CATEGORY", "TYPE", "SUBTYPE", "ENDPOINTID">>]

(* _hostname, _username and _stream_specific_extensions *)
QradarChoices == [
    alerts |-> <<
        <<"shost", <<"host_name">> >>, <<"suser", <<"user_name">> >>, <<"act", <<"action">> >>,
        <<"reason", <<"description">> >>, <<"sev", <<"severity">> >>, <<"src", <<"host_ip">> >>,
        <<"source", <<"source">> >>, <<"category", <<"category">> >>,
        <<"endpoint_id", <<"endpoint_id">> >>, <<"name", <<"name">> >>,
        <<"fileHash", <<"sha256", "file_sha256", "causality_actor_process_image_sha256">> >>,
        <<"filePath", <<"file_path", "causality_actor_process_image_path">> >> >>,
    incidents |-> <<
        <<"shost", <<"host_name">> >>,
        <<"suser", <<"assigned_user_mail", "assigned_user_pretty_name">> >>,
        <<"act", <<"status">> >>, <<"reason", <<"description">> >>, <<"sev", <<"severity">> >>,
        <<"assigned_user_pretty_name", <<"assigned_user_pretty_name">> >>,
        <<"resolve_comment", <<"resolve_comment">> >>,
        <<"manual_description", <<"manual_description">> >>, <<"request", <<"xdr_url">> >> >>,
    mgmt_audits |-> <<
        <<"shost", <<"AUDIT_HOSTNAME">> >>, <<"suser", <<"AUDIT_OWNER_EMAIL", "AUDIT_OWNER_NAME">> >>,
        <<"act", <<"AUDIT_RESULT">> >>, <<"reason", <<"AUDIT_DESCRIPTION">> >>,
        <<"sev", <<"AUDIT_SEVERITY">> >>, <<"src", <<"AUDIT_SOURCE_IP">> >>,
        <<"AUDIT_ENTITY", <<"AUDIT_ENTITY">> >>,
        <<"AUDIT_ENTITY_SUBTYPE", <<"AUDIT_ENTITY_SUBTYPE">> >> >>,
    agent_audits |-> <<
        <<"shost", <<"ENDPOINTNAME">> >>, <<"suser", <<"DOMAIN">> >>, <<"act", <<"RESULT">> >>,
        <<"reason", <<"REASON">> >>, <<"msg", <<"DESCRIPTION">> >>, <<"TYPE", <<"TYPE">> >>,
        <<"SUBTYPE", <<"SUBTYPE">> >>, <<"TRAPSVERSION", <<"TRAPSVERSION">> >> >>]

(* _primary_timestamp *)
PrimaryTime == [
    alerts       |-> <<"detection_timestamp", "last_modified_ts">>,
    incidents    |-> <<"modification_time", "creation_time">>,
    mgmt_audits  |-> <<"AUDIT_INSERT_TIME">>,
    agent_audits |-> <<"TIMESTAMP", "RECEIVEDTIME">>]

(* _end_timestamp *)
EndTime == [
    alerts       |-> <<"last_modified_ts">>,
    incidents    |-> <<"modification_time">>,
    mgmt_audits  |-> <<>>,
    agent_audits |-> <<"RECEIVEDTIME">>]

(* The identifiers to_qradar keeps under their own names. *)
Identifiers == {"alert_id", "incident_id", "AUDIT_ID", "ENDPOINTID"}
=============================================================================
