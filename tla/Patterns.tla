------------------------------- MODULE Patterns -------------------------------
(***************************************************************************)
(* The communication patterns (crates/laic/src/pattern.rs): the messages   *)
(* of skill calls, streams and topics, and the tests that tell them apart. *)
(***************************************************************************)
EXTENDS Wire

SKILL_REQUEST == 16
SKILL_RESPONSE == 17
STREAM_DATA == 32
TOPIC_PUBLISH == 48

IsSkillRequest(m) == m.header.msg_type = SKILL_REQUEST
IsSkillResponse(m) == m.header.msg_type = SKILL_RESPONSE
IsStreamData(m) == m.header.msg_type = STREAM_DATA
IsTopicPublish(m) == m.header.msg_type = TOPIC_PUBLISH

\* skill_request: the caller chooses an id it has not used.
SkillRequest(id, format, qos, len) ==
  NewMessage(SKILL_REQUEST, id, format, qos, len)

\* Mutant: the response carries its own id where the request's belongs.
OwnIdCorrelated(request, id, format, qos, len) ==
  SetCorrelationId(NewMessage(SKILL_RESPONSE, id, format, qos, len), id)

\* skill_response to a message that is a request; any other is refused with
\* UnexpectedMessageType.
SkillResponse(request, id, format, qos, len) ==
  SetCorrelationId(NewMessage(SKILL_RESPONSE, id, format, qos, len),
                   request.header.msg_id)

\* stream_chunk
StreamChunk(id, format, qos, len, is_last) ==
  IF is_last THEN SetEndOfStream(NewMessage(STREAM_DATA, id, format, qos, len))
             ELSE NewMessage(STREAM_DATA, id, format, qos, len)

\* topic_publish
TopicPublish(id, format, qos, len) ==
  NewMessage(TOPIC_PUBLISH, id, format, qos, len)
=============================================================================
