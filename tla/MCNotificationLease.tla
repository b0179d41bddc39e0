------------------------ MODULE MCNotificationLease ------------------------
EXTENDS NotificationLease
=============================================================================
