-------------------------- MODULE MCEventConsumers --------------------------
EXTENDS EventConsumers

CONSTANTS a, b, s

MCAdmins == {a, b}
\* A student reads; what admins are told is not multiplied by their reading it.
MCReaders == {s}
\* Shapes of handlers: admins and e-mail, user and e-mail, e-mail only, none.
MCTypes == {"user.registered", "registration.approved", "admin.created", "course.published"}
\* 1, 2 and 4 seconds; a tick is a second.
MCPauses == <<1, 2, 4>>
============================================================================
