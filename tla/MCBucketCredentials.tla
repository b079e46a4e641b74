------------------------- MODULE MCBucketCredentials -------------------------
EXTENDS BucketCredentials
=============================================================================
