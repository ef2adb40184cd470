\* Three deliveries, up to three POSTs each, over a lossy network.
CONSTANTS
    IdentityCreated = IdentityCreated
    EmailFactorCreated = EmailFactorCreated
    webhook01 = webhook01
    webhook03 = webhook03
    Events <- MCEvents
    Subscribers <- MCSubscribers
    Subscriptions <- MCSubscriptions
    MaxAttempts = 3
SPECIFICATION Spec
INVARIANT TypeOK
PROPERTY DeliverySettles
\* Once every delivery is acknowledged or dropped the dispatcher is idle.
CHECK_DEADLOCK FALSE
